---- MODULE Spec2Model ----
(***************************************************************************)
(* The administrative-unit enrichment driver of hospital-search            *)
(* (scripts/build-district-aliases.js, the old-district + new-ward         *)
(* version): reference loading, the old-unit and new-unit locators, the    *)
(* province remapping, the alias set and the search-key normaliser.        *)
(*                                                                         *)
(* Text is a sequence of characters.  A number is an index into Doubles,   *)
(* the finite table of IEEE doubles the model's inputs can denote, or NaN. *)
(* Index order is the order of the doubles, so every comparison of the     *)
(* code on coordinates is the comparison of the indices.                   *)
(***************************************************************************)
EXTENDS Integers, Sequences, FiniteSets, TLC

\* ------------------------------------------------------------------ bounds
MaxLegacyRows == 2
MaxConvertRows == 2
MaxWardRows == 2
MaxHospitals == 2
MaxStrLen == 2
MaxAliasInputs == 3

\* -------------------------------------------------------------------- text
\* The characters of the model: plain letters in both cases, the precomposed
\* a-grave (U+00E0 / U+00C0), the combining grave accent (U+0300), the
\* letter d with stroke (U+0111 / U+0110) and the letter o with stroke
\* (U+00F8 / U+00D8), neither of which has a decomposition.
Char == {"a", "A", "d", "D", "n", "N", "a_grave", "A_GRAVE", "grave",
         "d_stroke", "D_STROKE", "o_slash", "O_SLASH"}

Range(s) == {s[i] : i \in 1..Len(s)}

\* s with every character c replaced by the sequence f[c]
FlatMap(f, s) ==
    LET map[t \in Seq(Char)] ==
            IF t = <<>> THEN <<>> ELSE f[Head(t)] \o map[Tail(t)]
    IN  map[s]

\* String.prototype.toLowerCase on the model's characters
LowerChar == [c \in Char |->
    CASE c = "A" -> <<"a">>
      [] c = "D" -> <<"d">>
      [] c = "N" -> <<"n">>
      [] c = "A_GRAVE" -> <<"a_grave">>
      [] c = "D_STROKE" -> <<"d_stroke">>
      [] c = "O_SLASH" -> <<"o_slash">>
      [] OTHER -> <<c>>]

toLowerCase(s) == FlatMap(LowerChar, s)

\* String.prototype.normalize("NFD"): canonical decomposition
NFDChar == [c \in Char |->
    CASE c = "a_grave" -> <<"a", "grave">>
      [] c = "A_GRAVE" -> <<"A", "grave">>
      [] OTHER -> <<c>>]

normalizeNFD(s) == FlatMap(NFDChar, s)

\* The characters of the block U+0300..U+036F
CombiningMarks == {"grave"}

\* .replace(/[\u0300-\u036f]/g, "")
stripMarks(s) == SelectSeq(s, LAMBDA c : c \notin CombiningMarks)

\* .replace(/<from>/g, <to>) for a one-character pattern
replaceChar(s, from, to) ==
    FlatMap([c \in Char |-> IF c \in from THEN <<to>> ELSE <<c>>], s)

\* faulty variant: the marks are stripped before the text is decomposed
removeDiacriticsStripFirst(str) ==
    replaceChar(replaceChar(normalizeNFD(stripMarks(str)), {"d_stroke"}, "d"),
                {"D_STROKE"}, "D")

\* faulty variant: the letter d with stroke is left as it is
removeDiacriticsNoStroke(str) == stripMarks(normalizeNFD(str))

\* removeDiacritics of the scripts
removeDiacritics(str) ==
    replaceChar(replaceChar(stripMarks(normalizeNFD(str)), {"d_stroke"}, "d"),
                {"D_STROKE"}, "D")

\* removeDiacritics of the front end: /đ/gi folds both cases to "d"
removeDiacriticsApp(str) ==
    replaceChar(stripMarks(normalizeNFD(str)), {"d_stroke", "D_STROKE"}, "d")

\* the search key the driver derives from a text field
searchKey(s) == removeDiacritics(toLowerCase(s))

\* ----------------------------------------------------------------- numbers
\* Doubles[i+1] is the double that number i stands for.
Doubles == <<"0", "0.05", "0.1", "0.13489824088780958", "359.87">>
NaN == -1
Infinity == 2147483647

isNaN(x) == x = NaN

\* parseFloat on the texts of the model: a decimal text is its double, a text
\* that does not start with a number is NaN
parseFloat(t) ==
    IF \E i \in 1..Len(Doubles) : Doubles[i] = t
    THEN (CHOOSE i \in 1..Len(Doubles) : Doubles[i] = t) - 1
    ELSE NaN

\* Number(t): as parseFloat, but the empty text is 0
Number(t) == IF t = "" THEN 0 ELSE parseFloat(t)

\* x < y of the code: false as soon as either side is NaN
Less(x, y) == ~isNaN(x) /\ ~isNaN(y) /\ x < y
LessEq(x, y) == ~isNaN(x) /\ ~isNaN(y) /\ x <= y

MathMin(x, y) == IF isNaN(x) \/ isNaN(y) THEN NaN ELSE IF x < y THEN x ELSE y
MathMax(x, y) == IF isNaN(x) \/ isNaN(y) THEN NaN ELSE IF x > y THEN x ELSE y

\* ------------------------------------------------------------ absent values
\* null / undefined is the empty sequence, a present value v is <<v>>
null == <<>>
Some(v) == <<v>>
isNull(o) == o = <<>>
Val(o) == o[1]

\* ---------------------------------------------------------- pure functions
\* A map link is a sequence of texts: <<>> is a missing or empty link,
\* <<"query=", lat, lon>> a link with the query parameter, anything else a
\* link without it.  /query=([-\d.]+),([-\d.]+)/ matches when both texts
\* start with characters of [-0-9.].
NumberLike == Range(Doubles) \cup {"-", "."}

\* faulty variant: a link without the parameter gives a coordinate of NaNs
extractCoordsAlways(mapsUrl) ==
    IF Len(mapsUrl) = 3 /\ mapsUrl[1] = "query="
       /\ mapsUrl[2] \in NumberLike /\ mapsUrl[3] \in NumberLike
    THEN Some([lat |-> parseFloat(mapsUrl[2]), lon |-> parseFloat(mapsUrl[3])])
    ELSE Some([lat |-> NaN, lon |-> NaN])

extractCoords(mapsUrl) ==
    IF mapsUrl = <<>> THEN null
    ELSE IF ~(Len(mapsUrl) = 3 /\ mapsUrl[1] = "query="
              /\ mapsUrl[2] \in NumberLike /\ mapsUrl[3] \in NumberLike) THEN null
    ELSE Some([lat |-> parseFloat(mapsUrl[2]), lon |-> parseFloat(mapsUrl[3])])

\* A bounds text is the sequence of its parts around the dash, each part the
\* sequence of its components around the comma; the empty text is <<<<"">>>>.
EmptyBounds == <<<<"">>>>

Component(part, k) == IF k <= Len(part) THEN Number(part[k]) ELSE NaN

parseBounds(boundsStr) ==
    IF boundsStr = EmptyBounds THEN null
    ELSE IF Len(boundsStr) # 2 THEN null
    ELSE LET lat1 == Component(boundsStr[1], 1)
             lon1 == Component(boundsStr[1], 2)
             lat2 == Component(boundsStr[2], 1)
             lon2 == Component(boundsStr[2], 2)
         IN IF isNaN(lat1) \/ isNaN(lon1) \/ isNaN(lat2) \/ isNaN(lon2) THEN null
            ELSE Some([minLat |-> MathMin(lat1, lat2), maxLat |-> MathMax(lat1, lat2),
                       minLon |-> MathMin(lon1, lon2), maxLon |-> MathMax(lon1, lon2)])

isInBounds(lat, lon, bounds) ==
    /\ LessEq(bounds.minLat, lat)
    /\ LessEq(lat, bounds.maxLat)
    /\ LessEq(bounds.minLon, lon)
    /\ LessEq(lon, bounds.maxLon)

\* haversine (R = 6371 km) between the doubles of Doubles, evaluated by the
\* formula of the source in IEEE double arithmetic, in millimetres rounded
\* down: HaversineMM[lat1+1][lon1+1][lat2+1][lon2+1].  Rounding keeps the
\* order and the equalities of the doubles of this table, 15 km included.
HaversineMM ==
    <<
      <<
         <<<<0, 5559746, 11119492, 15000000, 14455340>>, <<5559746, 7862668, 12431969, 15997209, 15487659>>, <<11119492, 12431969, 15725333, 18671981, 18237318>>, <<15000000, 15997209, 18671981, 21213193, 20831622>>, <<14455340, 15487659, 18237318, 20831622, 20442929>>>>,
         <<<<5559746, 0, 5559746, 9440253, 20015086>>, <<7862668, 5559746, 7862668, 10955781, 20772924>>, <<12431969, 11119492, 12431969, 14586343, 22896427>>, <<15997209, 15000000, 15997209, 17723380, 25012056>>, <<15487659, 14455340, 15487659, 17264851, 24689266>>>>,
         <<<<11119492, 5559746, 0, 3880507, 25574833>>, <<12431969, 7862668, 5559746, 6780052, 26172174>>, <<15725333, 12431969, 11119492, 11777157, 27887533>>, <<18671981, 15997209, 15000000, 15493815, 29649129>>, <<18237318, 15487659, 14455340, 14967136, 29377335>>>>,
         <<<<15000000, 9440253, 3880507, 0, 29455340>>, <<15997209, 10955781, 6780052, 5559746, 29975450>>, <<18671981, 14586343, 11777157, 11119492, 31484270>>, <<21213193, 17723380, 15493815, 15000000, 33054734>>, <<20831622, 17264851, 14967136, 14455340, 32811163>>>>,
         <<<<14455340, 20015086, 25574833, 29455340, 0>>, <<15487659, 20772924, 26172174, 29975450, 5559746>>, <<18237318, 22896427, 27887533, 31484270, 11119492>>, <<20831622, 25012056, 29649129, 33054734, 15000000>>, <<20442929, 24689266, 29377335, 32811163, 14455340>>>>
      >>,
      <<
         <<<<5559746, 7862668, 12431969, 15997209, 15487659>>, <<0, 5559744, 11119488, 14999994, 14455334>>, <<5559746, 7862665, 12431961, 15997199, 15487649>>, <<9440253, 10955778, 14586334, 17723367, 17264839>>, <<20015086, 20772925, 22896433, 25012065, 24689274>>>>,
         <<<<7862668, 5559746, 7862668, 10955781, 20772924>>, <<5559744, 0, 5559744, 9440250, 20015079>>, <<7862665, 5559746, 7862665, 10955775, 20772909>>, <<10955778, 9440253, 10955778, 13350525, 22129640>>, <<20772925, 20015086, 20772925, 22129662, 28305597>>>>,
         <<<<12431969, 7862668, 5559746, 6780052, 26172174>>, <<11119488, 5559744, 0, 3880505, 25574823>>, <<12431961, 7862665, 5559746, 6780050, 26172155>>, <<14586334, 10955778, 9440253, 10206698, 27261486>>, <<22896433, 20772925, 20015086, 20387790, 32475759>>>>,
         <<<<15997209, 10955781, 6780052, 5559746, 29975450>>, <<14999994, 9440250, 3880505, 0, 29455329>>, <<15997199, 10955775, 6780050, 5559746, 29975428>>, <<17723367, 13350525, 10206698, 9440253, 30931101>>, <<25012065, 22129662, 20387790, 20015086, 35612071>>>>,
         <<<<15487659, 20772924, 26172174, 29975450, 5559746>>, <<14455334, 20015079, 25574823, 29455329, 0>>, <<15487649, 20772909, 26172155, 29975428, 5559746>>, <<17264839, 22129640, 27261486, 30931101, 9440253>>, <<24689274, 28305597, 32475759, 35612071, 20015086>>>>
      >>,
      <<
         <<<<11119492, 12431969, 15725333, 18671981, 18237318>>, <<5559746, 7862665, 12431961, 15997199, 15487649>>, <<0, 5559737, 11119475, 14999977, 14455318>>, <<3880507, 6780043, 11777135, 15493785, 14967107>>, <<25574833, 26172176, 27887542, 29649144, 29377349>>>>,
         <<<<12431969, 11119492, 12431969, 14586343, 22896427>>, <<7862665, 5559746, 7862665, 10955775, 20772909>>, <<5559737, 0, 5559737, 9440239, 20015056>>, <<6780043, 3880507, 6780043, 10206681, 20387749>>, <<26172176, 25574833, 26172176, 27261517, 32475763>>>>,
         <<<<15725333, 12431969, 11119492, 11777157, 27887533>>, <<12431961, 7862665, 5559746, 6780050, 26172155>>, <<11119475, 5559737, 0, 3880501, 25574794>>, <<11777135, 6780043, 3880507, 5487860, 25867501>>, <<27887542, 26172176, 25574833, 25867555, 36168263>>>>,
         <<<<18671981, 14586343, 11777157, 11119492, 31484270>>, <<15997199, 10955775, 6780050, 5559746, 29975428>>, <<14999977, 9440239, 3880501, 0, 29455295>>, <<15493785, 10206681, 5487860, 3880507, 29709792>>, <<29649144, 27261517, 25867555, 25574833, 39008818>>>>,
         <<<<18237318, 22896427, 27887533, 31484270, 11119492>>, <<15487649, 20772909, 26172155, 29975428, 5559746>>, <<14455318, 20015056, 25574794, 29455295, 0>>, <<14967107, 20387749, 25867501, 29709792, 3880507>>, <<29377349, 32475763, 36168263, 39008818, 25574833>>>>
      >>,
      <<
         <<<<15000000, 15997209, 18671981, 21213193, 20831622>>, <<9440253, 10955778, 14586334, 17723367, 17264839>>, <<3880507, 6780043, 11777135, 15493785, 14967107>>, <<0, 5559730, 11119461, 14999958, 14455300>>, <<29455340, 29975453, 31484281, 33054752, 32811180>>>>,
         <<<<15997209, 15000000, 15997209, 17723380, 25012056>>, <<10955778, 9440253, 10955778, 13350525, 22129640>>, <<6780043, 3880507, 6780043, 10206681, 20387749>>, <<5559730, 0, 5559730, 9440227, 20015031>>, <<29975453, 29455340, 29975453, 30931138, 35612077>>>>,
         <<<<18671981, 15997209, 15000000, 15493815, 29649129>>, <<14586334, 10955778, 9440253, 10206698, 27261486>>, <<11777135, 6780043, 3880507, 5487860, 25867501>>, <<11119461, 5559730, 0, 3880496, 25574762>>, <<31484281, 29975453, 29455340, 29709853, 39008819>>>>,
         <<<<21213193, 17723380, 15493815, 15000000, 33054734>>, <<17723367, 13350525, 10206698, 9440253, 30931101>>, <<15493785, 10206681, 5487860, 3880507, 29709792>>, <<14999958, 9440227, 3880496, 0, 29455258>>, <<33054752, 30931138, 29709853, 29455340, 41656123>>>>,
         <<<<20831622, 25012056, 29649129, 33054734, 15000000>>, <<17264839, 22129640, 27261486, 30931101, 9440253>>, <<14967107, 20387749, 25867501, 29709792, 3880507>>, <<14455300, 20015031, 25574762, 29455258, 0>>, <<32811180, 35612077, 39008819, 41656123, 29455340>>>>
      >>,
      <<
         <<<<14455340, 15487659, 18237318, 20831622, 20442929>>, <<20015086, 20772925, 22896433, 25012065, 24689274>>, <<25574833, 26172176, 27887542, 29649144, 29377349>>, <<29455340, 29975453, 31484281, 33054752, 32811180>>, <<0, 5559732, 11119464, 14999961, 14455303>>>>,
         <<<<15487659, 14455340, 15487659, 17264851, 24689266>>, <<20772925, 20015086, 20772925, 22129662, 28305597>>, <<26172176, 25574833, 26172176, 27261517, 32475763>>, <<29975453, 29455340, 29975453, 30931138, 35612077>>, <<5559732, 0, 5559732, 9440229, 20015035>>>>,
         <<<<18237318, 15487659, 14455340, 14967136, 29377335>>, <<22896433, 20772925, 20015086, 20387790, 32475759>>, <<27887542, 26172176, 25574833, 25867555, 36168263>>, <<31484281, 29975453, 29455340, 29709853, 39008819>>, <<11119464, 5559732, 0, 3880497, 25574767>>>>,
         <<<<20831622, 17264851, 14967136, 14455340, 32811163>>, <<25012065, 22129662, 20387790, 20015086, 35612071>>, <<29649144, 27261517, 25867555, 25574833, 39008818>>, <<33054752, 30931138, 29709853, 29455340, 41656123>>, <<14999961, 9440229, 3880497, 0, 29455264>>>>,
         <<<<20442929, 24689266, 29377335, 32811163, 14455340>>, <<24689274, 28305597, 32475759, 35612071, 20015086>>, <<29377349, 32475763, 36168263, 39008818, 25574833>>, <<32811180, 35612077, 39008819, 41656123, 29455340>>, <<14455303, 20015035, 25574767, 29455264, 0>>>>
      >>
    >>

\* faulty variant: the cosine of the first latitude is taken twice, as when
\* lat1 is written for lat2 in the second Math.cos
haversineOneCosine(lat1, lon1, lat2, lon2) ==
    IF isNaN(lat1) \/ isNaN(lon1) \/ isNaN(lat2) \/ isNaN(lon2) THEN NaN
    ELSE IF lat1 = lat2 THEN HaversineMM[lat1 + 1][lon1 + 1][lat2 + 1][lon2 + 1]
    ELSE HaversineMM[lat1 + 1][lon1 + 1][lat2 + 1][lon2 + 1] + lat1

haversine(lat1, lon1, lat2, lon2) ==
    IF isNaN(lat1) \/ isNaN(lon1) \/ isNaN(lat2) \/ isNaN(lon2) THEN NaN
    ELSE HaversineMM[lat1 + 1][lon1 + 1][lat2 + 1][lon2 + 1]

\* the fallback radius, 15 km, in millimetres
FallbackRadius == 15000000

\* ------------------------------------------------------------------ inputs
\* names used by the reference rows
NameDa == <<"D_STROKE", "a_grave">>
NameNa == <<"N", "a">>
NameAn == <<"A", "n">>
NameDan == <<"D_STROKE", "a", "n">>
NameOa == <<"O_SLASH", "a">>

\* Rows of legacy_63province.csv as parseCSV returns them (texts, trimmed).
\*   LegacyBoxed:   P1|D1, centroid (0, 0), box (0,0)-(0.05,0.05)
\*   LegacyNoBox:   P1|D2, centroid (0.05, 0.1), a bounds text with one part
\*   LegacyDupNaN:  P1|D1 again, other names, a centroid that is no number
\*   LegacyNoName:  P2|D1, empty province and district names, centroid
\*                  (0.1, 0.05), box given upper corner first
LegacyBoxed ==
    [provinceCode |-> "P1", province |-> NameDa, provinceShort |-> NameDa,
     districtCode |-> "D1", district |-> NameDan, districtShort |-> NameAn,
     districtType |-> "quan", districtLat |-> "0", districtLon |-> "0",
     districtBounds |-> <<<<"0", "0">>, <<"0.05", "0.05">>>>]
LegacyNoBox ==
    [provinceCode |-> "P1", province |-> NameDa, provinceShort |-> NameDa,
     districtCode |-> "D2", district |-> <<"d", "a">>, districtShort |-> <<"d", "a">>,
     districtType |-> "huyen", districtLat |-> "0.05", districtLon |-> "0.1",
     districtBounds |-> <<<<"0", "0">>>>]
LegacyDupNaN ==
    [provinceCode |-> "P1", province |-> NameDa, provinceShort |-> NameNa,
     districtCode |-> "D1", district |-> <<"n">>, districtShort |-> <<"n">>,
     districtType |-> "quan", districtLat |-> "abc", districtLon |-> "0",
     districtBounds |-> EmptyBounds]
LegacyNoName ==
    [provinceCode |-> "P2", province |-> <<>>, provinceShort |-> <<>>,
     districtCode |-> "D1", district |-> <<>>, districtShort |-> <<"a_grave">>,
     districtType |-> "", districtLat |-> "0.1", districtLon |-> "0.05",
     districtBounds |-> <<<<"0.13489824088780958", "0.1">>, <<"0.05", "0.05">>>>]
LegacyRowUniverse == {LegacyBoxed, LegacyNoBox, LegacyDupNaN, LegacyNoName}

\* Rows of convert_legacy_2025.csv.
\*   ConvMerged:  P1|D1 of province Da goes to Na, flagged as merged
\*   ConvStays:   P1|D2 of province Da stays in Da
\*   ConvDupNone: P1|D1 again, with an empty successor name
ConvMerged ==
    [provinceCode |-> "P1", districtCode |-> "D1", provinceShort |-> NameDa,
     newProvince |-> NameNa, newProvinceShort |-> NameNa, isMergedProvince |-> "True"]
ConvStays ==
    [provinceCode |-> "P1", districtCode |-> "D2", provinceShort |-> NameDa,
     newProvince |-> NameDa, newProvinceShort |-> NameDa, isMergedProvince |-> "False"]
ConvDupNone ==
    [provinceCode |-> "P1", districtCode |-> "D1", provinceShort |-> NameDa,
     newProvince |-> <<>>, newProvinceShort |-> <<>>, isMergedProvince |-> ""]
ConvertRowUniverse == {ConvMerged, ConvStays, ConvDupNone}

\* Rows of new_34province.csv.
\*   WardFar:    province Na, centroid (0.13.., 0.1)
\*   WardNear:   province Da, centroid (0.05, 0.05)
\*   WardNoName: empty province and ward names, centroid (0, 0.05)
\*   WardNaN:    province Na, a longitude that is no number
WardFar ==
    [provinceCode |-> "N1", province |-> NameNa, provinceShort |-> NameNa,
     wardCode |-> "W1", ward |-> NameAn, wardShort |-> <<"A">>, wardType |-> "phuong",
     wardLat |-> "0.13489824088780958", wardLon |-> "0.1", wardAreaKm2 |-> "0.1"]
WardNear ==
    [provinceCode |-> "N2", province |-> NameDa, provinceShort |-> NameDa,
     wardCode |-> "W2", ward |-> NameDan, wardShort |-> NameDa, wardType |-> "xa",
     wardLat |-> "0.05", wardLon |-> "0.05", wardAreaKm2 |-> ""]
WardNoName ==
    [provinceCode |-> "N3", province |-> <<>>, provinceShort |-> <<>>,
     wardCode |-> "W3", ward |-> <<>>, wardShort |-> <<"d_stroke">>, wardType |-> "",
     wardLat |-> "0", wardLon |-> "0.05", wardAreaKm2 |-> ""]
WardNaN ==
    [provinceCode |-> "N1", province |-> NameNa, provinceShort |-> NameNa,
     wardCode |-> "W4", ward |-> <<"n">>, wardShort |-> <<"n">>, wardType |-> "xa",
     wardLat |-> "0", wardLon |-> "", wardAreaKm2 |-> ""]
WardRowUniverse == {WardFar, WardNear, WardNoName, WardNaN}

\* Map links of hospitals.json: a point in the boxes of LegacyBoxed and
\* LegacyNoName, a point in no box at exactly 15 km from (0, 0), a query whose
\* latitude is "-", a query whose longitude 359.87 is beyond 180 (14.46 km
\* from (0, 0) by the formula of haversine), a link without the query
\* parameter, no link.
MapLinkUniverse ==
    {<<"query=", "0.05", "0.05">>, <<"query=", "0.13489824088780958", "0">>,
     <<"query=", "-", "0.05">>, <<"query=", "0", "359.87">>, <<"maps">>, <<>>}

\* A facility record read from hospitals.json, not yet enriched
Facility(url, name) ==
    [mapsUrl |-> url, name |-> Some(name), city |-> Some(NameDa), district |-> null,
     address |-> Some(NameNa),
     oldDistrict |-> null, oldProvince |-> null, newWard |-> null,
     newProvince |-> null, aliases |-> null, aliasesAscii |-> null,
     cityAscii |-> null, districtAscii |-> null, nameAscii |-> null]

\* A record that an earlier run wrote (line 719 saves to the file line 608
\* reads) and whose map link has no query parameter
FacilityEnrichedBefore ==
    [Facility(<<"maps">>, NameDan) EXCEPT
        !.oldDistrict = Some(NameAn), !.oldProvince = Some(NameDa),
        !.newWard = Some(<<"A">>), !.newProvince = Some(NameNa),
        !.aliases = Some(<<NameAn, NameDa>>),
        !.aliasesAscii = Some(<<<<"a", "n">>, <<"d", "a">>>>),
        !.cityAscii = Some(<<"d", "a">>), !.districtAscii = Some(<<>>),
        !.nameAscii = Some(<<"d", "a", "n">>)]

\* The facilities: one per map link with a query parameter, the record of an
\* earlier run, and a record without map link whose name has a letter that
\* no decomposition folds
FacilityUniverse ==
    {Facility(u, NameDan) : u \in {l \in MapLinkUniverse : Len(l) = 3}}
       \cup {FacilityEnrichedBefore, Facility(<<>>, NameOa)}

SeqsUpTo(S, n) == UNION {[1..k -> S] : k \in 0..n}

\* ------------------------------------------------------------------- state
VARIABLES
    pc,                     \* position in main()
    legacyRows,             \* parseCSV(LEGACY_PATH)
    convertRows,            \* parseCSV(CONVERT_PATH)
    newWardRows,            \* parseCSV(NEW_PROVINCE_PATH)
    i,                      \* index of the next row or hospital of the loop
    districtMap,            \* Map key -> district, as its entries in insertion order
    oldDistricts,           \* the districts with a numeric centroid
    districtToNewProvince,  \* Map key -> successor province
    aliasData,              \* the lookup artifact, key -> entry
    newWards,               \* the wards with a numeric centroid
    newWardsByProvince,     \* Map provinceShort -> wards
    oldToNewProvince,       \* Map old provinceShort -> new provinceShort
    hospitals,              \* the facility collection, enriched in place
    oldMatched, newWardMatched, unmatched,
    last,                   \* the locals of the latest iteration of the hospital loop
    todo,                   \* the indices of the facilities not yet gone through
    str, out,               \* input and results of the pure-function checks
    cache,                  \* reverse-geocode: the keys of the cache object
    cacheFile,              \* the keys in geocode-cache.json
    updated,                \* reverse-geocode: the counter updated
    served,                 \* how often the service has answered for each key
    runs,                   \* the runs of reverse-geocode started so far
    failures                \* the requests the service has failed

geoVars == <<cache, cacheFile, updated, served, runs, failures>>

vars == <<pc, legacyRows, convertRows, newWardRows, i, districtMap, oldDistricts,
          districtToNewProvince, aliasData, newWards, newWardsByProvince,
          oldToNewProvince, hospitals, oldMatched, newWardMatched, unmatched,
          last, todo, str, out, geoVars>>

driverVars == <<pc, legacyRows, convertRows, newWardRows, i, districtMap, oldDistricts,
          districtToNewProvince, aliasData, newWards, newWardsByProvince,
          oldToNewProvince, hospitals, oldMatched, newWardMatched, unmatched, last,
          todo>>

\* ----------------------------------------------------------- Map and Set
EmptyMap == [k \in {} |-> <<>>]
MapHas(m, k) == k \in DOMAIN m
MapSet(m, k, v) == [x \in DOMAIN m \cup {k} |-> IF x = k THEN v ELSE m[x]]
\* Map.get: undefined for a missing key
MapGet(m, k) == IF k \in DOMAIN m THEN Some(m[k]) ELSE null

\* A Set is the sequence of its members in insertion order.
\* faulty variant: add appends without looking for the member
SetAddAlways(s, x) == Append(s, x)
\* faulty variant: add starts the set again
SetAddReplace(s, x) == <<x>>

SetAdd(s, x) == IF x \in Range(s) THEN s ELSE Append(s, x)

SetDelete(s, x) == SelectSeq(s, LAMBDA y : y # x)

\* `${provinceCode}|${districtCode}`
Key(r) == <<r.provinceCode, r.districtCode>>

\* ----------------------------------------------------------------- loading
NoLocals == [coords |-> null, bestMatch |-> null, newProvShort |-> null,
             candidateWards |-> <<>>, bestNewWard |-> null, added |-> <<>>]

\* reverse-geocode is not running
GeoIdle ==
    /\ cache = {} /\ cacheFile = {} /\ updated = 0
    /\ served = <<>> /\ runs = 0 /\ failures = 0

Init ==
    /\ pc = "readLegacy"
    /\ legacyRows = <<>> /\ convertRows = <<>> /\ newWardRows = <<>>
    /\ i = 1
    /\ districtMap = <<>> /\ oldDistricts = <<>>
    /\ districtToNewProvince = EmptyMap /\ aliasData = EmptyMap
    /\ newWards = <<>> /\ newWardsByProvince = EmptyMap
    /\ oldToNewProvince = EmptyMap
    /\ hospitals = <<>>
    /\ oldMatched = 0 /\ newWardMatched = 0 /\ unmatched = 0
    /\ last = NoLocals /\ todo = {}
    /\ str = <<>> /\ out = <<>>
    /\ GeoIdle

\* line 498: the legacy table is read
ReadLegacy ==
    /\ pc = "readLegacy"
    /\ legacyRows' \in SeqsUpTo(LegacyRowUniverse, MaxLegacyRows)
    /\ pc' = "districts" /\ i' = 1
    /\ UNCHANGED <<convertRows, newWardRows, districtMap, oldDistricts,
                   districtToNewProvince, aliasData, newWards, newWardsByProvince,
                   oldToNewProvince, hospitals, oldMatched, newWardMatched,
                   unmatched, last, todo, str, out, geoVars>>

DistrictOf(row) ==
    [province |-> row.province, provinceShort |-> row.provinceShort,
     district |-> row.district, districtShort |-> row.districtShort,
     districtType |-> row.districtType,
     lat |-> parseFloat(row.districtLat), lon |-> parseFloat(row.districtLon),
     bounds |-> parseBounds(row.districtBounds),
     provinceCode |-> row.provinceCode, districtCode |-> row.districtCode]

DistrictMapHas(m, key) == \E j \in 1..Len(m) : Key(m[j]) = key

\* faulty variant: a later row with the same key replaces the entry
DistrictMapPutLast(m, row) ==
    IF DistrictMapHas(m, Key(row))
    THEN [j \in 1..Len(m) |-> IF Key(m[j]) = Key(row) THEN DistrictOf(row) ELSE m[j]]
    ELSE Append(m, DistrictOf(row))

\* lines 502-516: if (!districtMap.has(key)) districtMap.set(key, {...})
DistrictMapPut(m, row) ==
    IF DistrictMapHas(m, Key(row)) THEN m ELSE Append(m, DistrictOf(row))

\* lines 501-517, one iteration
LoadLegacyRow ==
    /\ pc = "districts" /\ i <= Len(legacyRows)
    /\ districtMap' = DistrictMapPut(districtMap, legacyRows[i])
    /\ i' = i + 1
    /\ UNCHANGED <<pc, legacyRows, convertRows, newWardRows, oldDistricts,
                   districtToNewProvince, aliasData, newWards, newWardsByProvince,
                   oldToNewProvince, hospitals, oldMatched, newWardMatched,
                   unmatched, last, todo, str, out, geoVars>>

HasCentroid(d) == ~isNaN(d.lat) /\ ~isNaN(d.lon)

\* lines 519-526: the districts are filtered, the conversion table is read
FilterDistricts ==
    /\ pc = "districts" /\ i > Len(legacyRows)
    /\ oldDistricts' = SelectSeq(districtMap, HasCentroid)
    /\ convertRows' \in SeqsUpTo(ConvertRowUniverse, MaxConvertRows)
    /\ pc' = "conversions" /\ i' = 1
    /\ UNCHANGED <<legacyRows, newWardRows, districtMap,
                   districtToNewProvince, aliasData, newWards, newWardsByProvince,
                   oldToNewProvince, hospitals, oldMatched, newWardMatched,
                   unmatched, last, todo, str, out, geoVars>>

NewProvinceOf(row) ==
    [newProvince |-> row.newProvince, newProvinceShort |-> row.newProvinceShort,
     isMergedProvince |-> (row.isMergedProvince = "True")]

\* lines 530-537
ConvertPut(m, row) ==
    IF MapHas(m, Key(row)) THEN m ELSE MapSet(m, Key(row), NewProvinceOf(row))

\* lines 529-538, one iteration
LoadConvertRow ==
    /\ pc = "conversions" /\ i <= Len(convertRows)
    /\ districtToNewProvince' = ConvertPut(districtToNewProvince, convertRows[i])
    /\ i' = i + 1
    /\ UNCHANGED <<pc, legacyRows, convertRows, newWardRows, districtMap, oldDistricts,
                   aliasData, newWards, newWardsByProvince,
                   oldToNewProvince, hospitals, oldMatched, newWardMatched,
                   unmatched, last, todo, str, out, geoVars>>

\* faulty variant: the flag of the conversion record is not looked at
AliasEntryNeverChanged(d) ==
    LET newInfo == MapGet(districtToNewProvince, Key(d))
    IN [oldProvince |-> d.provinceShort, oldDistrict |-> d.district,
        oldDistrictShort |-> d.districtShort, oldDistrictType |-> d.districtType,
        newProvince |-> IF isNull(newInfo) THEN d.provinceShort
                        ELSE Val(newInfo).newProvinceShort,
        provinceChanged |-> FALSE,
        lat |-> d.lat, lon |-> d.lon, bounds |-> d.bounds]

\* lines 543-558
AliasEntry(d) ==
    LET newInfo == MapGet(districtToNewProvince, Key(d))
    IN [oldProvince |-> d.provinceShort, oldDistrict |-> d.district,
        oldDistrictShort |-> d.districtShort, oldDistrictType |-> d.districtType,
        newProvince |-> IF isNull(newInfo) THEN d.provinceShort
                        ELSE Val(newInfo).newProvinceShort,
        provinceChanged |-> IF isNull(newInfo) THEN FALSE
                            ELSE Val(newInfo).isMergedProvince,
        lat |-> d.lat, lon |-> d.lon, bounds |-> d.bounds]

\* lines 542-566: the lookup artifact is built and saved, the ward table is read
BuildAliasData ==
    /\ pc = "conversions" /\ i > Len(convertRows)
    /\ aliasData' = [k \in {Key(oldDistricts[j]) : j \in 1..Len(oldDistricts)} |->
                       AliasEntry(CHOOSE d \in Range(oldDistricts) : Key(d) = k)]
    /\ newWardRows' \in SeqsUpTo(WardRowUniverse, MaxWardRows)
    /\ pc' = "wards" /\ i' = 1
    /\ UNCHANGED <<legacyRows, convertRows, districtMap, oldDistricts,
                   districtToNewProvince, newWards, newWardsByProvince,
                   oldToNewProvince, hospitals, oldMatched, newWardMatched,
                   unmatched, last, todo, str, out, geoVars>>

\* parseFloat(row.wardAreaKm2) || 0
AreaOf(t) == IF isNaN(parseFloat(t)) THEN 0 ELSE parseFloat(t)

WardOf(row) ==
    [province |-> row.province, provinceShort |-> row.provinceShort,
     ward |-> row.ward, wardShort |-> row.wardShort, wardType |-> row.wardType,
     provinceCode |-> row.provinceCode, wardCode |-> row.wardCode,
     lat |-> parseFloat(row.wardLat), lon |-> parseFloat(row.wardLon),
     areaKm2 |-> AreaOf(row.wardAreaKm2)]

\* faulty variant: only the latitude is looked at
WardSkippedLatOnly(row) == isNaN(parseFloat(row.wardLat))

\* line 573: if (isNaN(lat) || isNaN(lon)) continue
WardSkipped(row) == isNaN(parseFloat(row.wardLat)) \/ isNaN(parseFloat(row.wardLon))

\* faulty variant: a ward row without a numeric centre stops the load
LoadWardRowStopsAtNaN ==
    /\ pc = "wards" /\ i <= Len(newWardRows) /\ ~WardSkipped(newWardRows[i])
    /\ LET ward == WardOf(newWardRows[i])
           bucket == IF MapHas(newWardsByProvince, ward.provinceShort)
                     THEN newWardsByProvince[ward.provinceShort] ELSE <<>>
       IN /\ newWards' = Append(newWards, ward)
          /\ newWardsByProvince' =
                MapSet(newWardsByProvince, ward.provinceShort, Append(bucket, ward))
    /\ i' = i + 1
    /\ UNCHANGED <<pc, legacyRows, convertRows, newWardRows, districtMap, oldDistricts,
                   districtToNewProvince, aliasData,
                   oldToNewProvince, hospitals, oldMatched, newWardMatched,
                   unmatched, last, todo, str, out, geoVars>>

\* lines 570-593, one iteration
LoadWardRow ==
    /\ pc = "wards" /\ i <= Len(newWardRows)
    /\ LET row == newWardRows[i]
           ward == WardOf(row)
           bucket == IF MapHas(newWardsByProvince, ward.provinceShort)
                     THEN newWardsByProvince[ward.provinceShort] ELSE <<>>
       IN IF WardSkipped(row)
          THEN UNCHANGED <<newWards, newWardsByProvince>>
          ELSE /\ newWards' = Append(newWards, ward)
               /\ newWardsByProvince' =
                     MapSet(newWardsByProvince, ward.provinceShort, Append(bucket, ward))
    /\ i' = i + 1
    /\ UNCHANGED <<pc, legacyRows, convertRows, newWardRows, districtMap, oldDistricts,
                   districtToNewProvince, aliasData,
                   oldToNewProvince, hospitals, oldMatched, newWardMatched,
                   unmatched, last, todo, str, out, geoVars>>

RECURSIVE OldToNew(_, _)
\* lines 599-605 over the rows from the first: the first row of an old province
\* with both names non-empty sets its entry
OldToNew(rows, m) ==
    IF rows = <<>> THEN m
    ELSE LET oldProv == Head(rows).provinceShort
             newProv == Head(rows).newProvinceShort
         IN OldToNew(Tail(rows),
                     IF oldProv # <<>> /\ newProv # <<>> /\ ~MapHas(m, oldProv)
                     THEN MapSet(m, oldProv, newProv) ELSE m)

\* lines 598-611: the province mapping is built, the hospitals are read.
\* main() reads legacyRows, districtMap, districtToNewProvince and newWardRows
\* no more from here on: the model drops them.
BuildOldToNewProvince ==
    /\ pc = "wards" /\ i > Len(newWardRows)
    /\ oldToNewProvince' = OldToNew(convertRows, EmptyMap)
    /\ hospitals' \in SeqsUpTo(FacilityUniverse, MaxHospitals)
    /\ todo' = 1..Len(hospitals')
    /\ oldMatched' = 0 /\ newWardMatched' = 0 /\ unmatched' = 0
    /\ pc' = "hospitals" /\ i' = 1
    /\ legacyRows' = <<>> /\ districtMap' = <<>>
    /\ districtToNewProvince' = EmptyMap /\ newWardRows' = <<>>
    /\ UNCHANGED <<convertRows, oldDistricts, aliasData, newWards, newWardsByProvince,
                   last, str, out, geoVars>>

\* lines 425-427 and 398: a file without a non-blank line has no header line,
\* parseCSVRow(lines[0]) reads undefined.length and main() ends by a TypeError.
\* Line 498, the legacy table:
ReadLegacyNoHeader ==
    /\ pc = "readLegacy"
    /\ pc' = "thrown"
    /\ UNCHANGED <<legacyRows, convertRows, newWardRows, i, districtMap, oldDistricts,
                   districtToNewProvince, aliasData, newWards, newWardsByProvince,
                   oldToNewProvince, hospitals, oldMatched, newWardMatched,
                   unmatched, last, todo, str, out, geoVars>>

\* line 526, the conversion table
ReadConvertNoHeader ==
    /\ pc = "districts" /\ i > Len(legacyRows)
    /\ oldDistricts' = SelectSeq(districtMap, HasCentroid)
    /\ pc' = "thrown"
    /\ UNCHANGED <<legacyRows, convertRows, newWardRows, i, districtMap,
                   districtToNewProvince, aliasData, newWards, newWardsByProvince,
                   oldToNewProvince, hospitals, oldMatched, newWardMatched,
                   unmatched, last, todo, str, out, geoVars>>

\* line 566, the ward table
ReadWardsNoHeader ==
    /\ pc = "conversions" /\ i > Len(convertRows)
    /\ aliasData' = [k \in {Key(oldDistricts[j]) : j \in 1..Len(oldDistricts)} |->
                       AliasEntry(CHOOSE d \in Range(oldDistricts) : Key(d) = k)]
    /\ pc' = "thrown"
    /\ UNCHANGED <<legacyRows, convertRows, newWardRows, i, districtMap, oldDistricts,
                   districtToNewProvince, newWards, newWardsByProvince,
                   oldToNewProvince, hospitals, oldMatched, newWardMatched,
                   unmatched, last, todo, str, out, geoVars>>

\* ------------------------------------------------------------ the locators
\* A running best of a scan: the match so far and its distance
NoBest == [match |-> null, dist |-> Infinity]

RECURSIVE ContainmentPass(_, _, _)
\* lines 624-632, the districts ds scanned from the first with running best b
ContainmentPass(ds, c, b) ==
    IF ds = <<>> THEN b
    ELSE LET d == Head(ds)
             dist == haversine(c.lat, c.lon, d.lat, d.lon)
         IN ContainmentPass(Tail(ds), c,
               IF ~isNull(d.bounds) /\ isInBounds(c.lat, c.lon, Val(d.bounds))
                  /\ Less(dist, b.dist)
               THEN [match |-> Some(d), dist |-> dist] ELSE b)

\* faulty variant: the radius itself is accepted
FallbackAcceptsInclusive(dist, bestDist) ==
    Less(dist, bestDist) /\ LessEq(dist, FallbackRadius)

\* line 637: if (dist < bestDist && dist < 15)
FallbackAccepts(dist, bestDist) == Less(dist, bestDist) /\ Less(dist, FallbackRadius)

RECURSIVE FallbackPass(_, _, _)
\* lines 635-641
FallbackPass(ds, c, b) ==
    IF ds = <<>> THEN b
    ELSE LET d == Head(ds)
             dist == haversine(c.lat, c.lon, d.lat, d.lon)
         IN FallbackPass(Tail(ds), c,
               IF FallbackAccepts(dist, b.dist)
               THEN [match |-> Some(d), dist |-> dist] ELSE b)

\* faulty variant: the fallback also runs after a containment match
LocateOldUnitAlwaysFallback(c) ==
    FallbackPass(oldDistricts, c, ContainmentPass(oldDistricts, c, NoBest)).match

\* lines 621-642, Step A: the matched old district or null
LocateOldUnit(c) ==
    LET boxed == ContainmentPass(oldDistricts, c, NoBest)
    IN IF isNull(boxed.match) THEN FallbackPass(oldDistricts, c, boxed).match
       ELSE boxed.match

\* faulty variant: the successor is looked up by the district's key
NewProvShortByKey(bestMatch) ==
    IF isNull(bestMatch) THEN null
    ELSE LET newInfo == MapGet(districtToNewProvince, Key(Val(bestMatch)))
         IN Some(IF isNull(newInfo) THEN Val(bestMatch).provinceShort
                 ELSE Val(newInfo).newProvinceShort)

\* faulty variant: without a matched district the province of the iteration
\* before is kept (the variable declared outside the loop)
NewProvShortSticky(bestMatch) ==
    IF isNull(bestMatch) THEN last.newProvShort
    ELSE LET mapped == MapGet(oldToNewProvince, Val(bestMatch).provinceShort)
         IN Some(IF ~isNull(mapped) /\ Val(mapped) # <<>> THEN Val(mapped)
                 ELSE Val(bestMatch).provinceShort)

\* lines 669-671: oldToNewProvince.get(provinceShort) || provinceShort, or null
NewProvShort(bestMatch) ==
    IF isNull(bestMatch) THEN null
    ELSE LET mapped == MapGet(oldToNewProvince, Val(bestMatch).provinceShort)
         IN Some(IF ~isNull(mapped) /\ Val(mapped) # <<>> THEN Val(mapped)
                 ELSE Val(bestMatch).provinceShort)

\* faulty variant: the whole ward collection is always searched
CandidateWardsAll(newProvShort) == newWards

\* lines 677-679: the bucket of a known, non-empty province name, else all wards
CandidateWards(newProvShort) ==
    IF ~isNull(newProvShort) /\ Val(newProvShort) # <<>>
       /\ MapHas(newWardsByProvince, Val(newProvShort))
    THEN newWardsByProvince[Val(newProvShort)]
    ELSE newWards

\* faulty variant: a ward is accepted only within the fallback radius of Step A
WardAcceptsWithin(dist, bestDist) == Less(dist, bestDist) /\ Less(dist, FallbackRadius)

\* faulty variant: a ward at the distance of the best so far replaces it
WardAcceptsOrEqual(dist, bestDist) == LessEq(dist, bestDist)

\* line 683: if (dist < bestNewDist)
WardAccepts(dist, bestDist) == Less(dist, bestDist)

RECURSIVE NearestWard(_, _, _)
\* lines 681-687
NearestWard(ws, c, b) ==
    IF ws = <<>> THEN b
    ELSE LET w == Head(ws)
             dist == haversine(c.lat, c.lon, w.lat, w.lon)
         IN NearestWard(Tail(ws), c,
               IF WardAccepts(dist, b.dist)
               THEN [match |-> Some(w), dist |-> dist] ELSE b)

\* --------------------------------------------------------------- the aliases
\* faulty variant: the successor province of the lookup artifact is not added
OldAliasInputsNoSuccessor(bestMatch) ==
    IF isNull(bestMatch) THEN <<>>
    ELSE LET d == Val(bestMatch)
             alias == MapGet(aliasData, Key(d))
         IN <<d.district, d.districtShort, d.provinceShort>>
            \o (IF ~isNull(alias) /\ Val(alias).provinceChanged
                THEN <<Val(alias).oldProvince>> ELSE <<>>)

\* lines 654-663: what Step A adds to the Set, in the order of the code
OldAliasInputs(bestMatch) ==
    IF isNull(bestMatch) THEN <<>>
    ELSE LET d == Val(bestMatch)
             alias == MapGet(aliasData, Key(d))
         IN <<d.district, d.districtShort, d.provinceShort>>
            \o (IF ~isNull(alias) /\ Val(alias).provinceChanged
                THEN <<Val(alias).oldProvince>> ELSE <<>>)
            \o (IF ~isNull(alias) /\ Val(alias).newProvince # <<>>
                THEN <<Val(alias).newProvince>> ELSE <<>>)

\* lines 693-695: what Step B adds
NewAliasInputs(bestNewWard) ==
    IF isNull(bestNewWard) THEN <<>>
    ELSE <<Val(bestNewWard).ward, Val(bestNewWard).wardShort,
           Val(bestNewWard).provinceShort>>

\* aliases.add(x) for each x of xs in turn
AddAll(s, xs) ==
    LET add[t \in Seq(Seq(Char)), ys \in Seq(Seq(Char))] ==
            IF ys = <<>> THEN t ELSE add[SetAdd(t, Head(ys)), Tail(ys)]
    IN  add[s, xs]

\* lines 645-702: new Set(), the adds, aliases.delete(""), [...aliases]
BuildAliases(inputs) == SetDelete(AddAll(<<>>, inputs), <<>>)

\* --------------------------------------------------------- the hospital loop
\* faulty variant: the full names of the units are written, not the short ones
EnrichedFullNames(h, bestMatch, bestNewWard, aliases) ==
    LET h1 == IF isNull(bestMatch) THEN h
              ELSE [h EXCEPT !.oldDistrict = Some(Val(bestMatch).district),
                             !.oldProvince = Some(Val(bestMatch).province)]
        h2 == IF isNull(bestNewWard) THEN h1
              ELSE [h1 EXCEPT !.newWard = Some(Val(bestNewWard).ward),
                              !.newProvince = Some(Val(bestNewWard).province)]
    IN [h2 EXCEPT !.aliases = Some(aliases),
                  !.aliasesAscii = Some([j \in 1..Len(aliases) |-> searchKey(aliases[j])])]

\* faulty variant: the aliases found are added to those the record came with
EnrichedAccumulating(h, bestMatch, bestNewWard, aliases) ==
    LET h1 == IF isNull(bestMatch) THEN h
              ELSE [h EXCEPT !.oldDistrict = Some(Val(bestMatch).districtShort),
                             !.oldProvince = Some(Val(bestMatch).provinceShort)]
        h2 == IF isNull(bestNewWard) THEN h1
              ELSE [h1 EXCEPT !.newWard = Some(Val(bestNewWard).wardShort),
                              !.newProvince = Some(Val(bestNewWard).provinceShort)]
        all == (IF isNull(h.aliases) THEN <<>> ELSE Val(h.aliases)) \o aliases
    IN [h2 EXCEPT !.aliases = Some(all),
                  !.aliasesAscii = Some([j \in 1..Len(all) |-> searchKey(all[j])])]

\* lines 613-710, one iteration
Enriched(h, bestMatch, bestNewWard, aliases) ==
    LET h1 == IF isNull(bestMatch) THEN h
              ELSE [h EXCEPT !.oldDistrict = Some(Val(bestMatch).districtShort),
                             !.oldProvince = Some(Val(bestMatch).provinceShort)]
        h2 == IF isNull(bestNewWard) THEN h1
              ELSE [h1 EXCEPT !.newWard = Some(Val(bestNewWard).wardShort),
                              !.newProvince = Some(Val(bestNewWard).provinceShort)]
    IN [h2 EXCEPT !.aliases = Some(aliases),
                  !.aliasesAscii = Some([j \in 1..Len(aliases) |-> searchKey(aliases[j])])]

\* faulty variant: the count goes up whether or not a unit was found
CountedAlways(n, match) == n + 1

\* lines 647-665 and 689-697: if (bestMatch) { ...; oldMatched++ }, and the
\* same for bestNewWard and newWardMatched
Counted(n, match) == IF isNull(match) THEN n ELSE n + 1

\* faulty variant: || for &&, one missing match is enough
CountedUnmatchedEither(n, bestMatch, bestNewWard) ==
    IF isNull(bestMatch) \/ isNull(bestNewWard) THEN n + 1 ELSE n

\* lines 708-710: if (!bestMatch && !bestNewWard) unmatched++
CountedUnmatched(n, bestMatch, bestNewWard) ==
    IF isNull(bestMatch) /\ isNull(bestNewWard) THEN n + 1 ELSE n

\* lines 614-709: the body of the loop for the facility h = hospitals[k]
Resolve(k) ==
    /\ \E coords \in {extractCoords(hospitals[k].mapsUrl)} :
         IF isNull(coords)
         THEN /\ unmatched' = unmatched + 1
              /\ last' = NoLocals
              /\ UNCHANGED <<hospitals, oldMatched, newWardMatched>>
         ELSE \E bestMatch \in {LocateOldUnit(Val(coords))} :
              \E newProvShort \in {NewProvShort(bestMatch)} :
              \E candidateWards \in {CandidateWards(newProvShort)} :
              \E bestNewWard \in {NearestWard(candidateWards, Val(coords), NoBest).match} :
              \E inputs \in {OldAliasInputs(bestMatch) \o NewAliasInputs(bestNewWard)} :
              \E aliases \in {BuildAliases(inputs)} :
                 /\ hospitals' = [hospitals EXCEPT ![k] =
                        Enriched(hospitals[k], bestMatch, bestNewWard, aliases)]
                 /\ oldMatched' = Counted(oldMatched, bestMatch)
                 /\ newWardMatched' = Counted(newWardMatched, bestNewWard)
                 /\ unmatched' = CountedUnmatched(unmatched, bestMatch, bestNewWard)
                 /\ last' = [coords |-> coords, bestMatch |-> bestMatch,
                             newProvShort |-> newProvShort,
                             candidateWards |-> candidateWards,
                             bestNewWard |-> bestNewWard, added |-> inputs]
    /\ todo' = todo \ {k}
    /\ UNCHANGED <<pc, legacyRows, convertRows, newWardRows, districtMap, oldDistricts,
                   districtToNewProvince, aliasData, newWards, newWardsByProvince,
                   oldToNewProvince, str, out, geoVars>>

\* line 613: for (const h of hospitals), the facilities in the order of the file
ProcessHospital ==
    /\ pc = "hospitals" /\ i <= Len(hospitals)
    /\ Resolve(i)
    /\ i' = i + 1

\* the loop of line 613 with the facilities taken in any order; i - 1 counts
\* the facilities gone through
ProcessHospitalAnyOrder ==
    /\ pc = "hospitals" /\ i <= Len(hospitals)
    /\ \E k \in todo : Resolve(k)
    /\ i' = i + 1

\* h.city || "": a missing field counts as the empty text
OrEmpty(o) == IF isNull(o) THEN <<>> ELSE Val(o)

\* faulty variant: the keys are written over the fields they are derived from
AsciiOfInPlace(h) ==
    [h EXCEPT !.city = Some(searchKey(OrEmpty(h.city))),
              !.district = Some(searchKey(OrEmpty(h.district))),
              !.name = Some(searchKey(OrEmpty(h.name)))]

AsciiOf(h) ==
    [h EXCEPT !.cityAscii = Some(searchKey(OrEmpty(h.city))),
              !.districtAscii = Some(searchKey(OrEmpty(h.district))),
              !.nameAscii = Some(searchKey(OrEmpty(h.name)))]

\* lines 713-724: the search keys are written, the file saved, the counts reported
UpdateAscii ==
    /\ pc = "hospitals" /\ i > Len(hospitals)
    /\ hospitals' = [j \in 1..Len(hospitals) |-> AsciiOf(hospitals[j])]
    /\ pc' = "done"
    /\ UNCHANGED <<legacyRows, convertRows, newWardRows, i, districtMap, oldDistricts,
                   districtToNewProvince, aliasData, newWards, newWardsByProvince,
                   oldToNewProvince, oldMatched, newWardMatched, unmatched,
                   last, todo, str, out, geoVars>>

Next ==
    \/ ReadLegacy
    \/ LoadLegacyRow
    \/ FilterDistricts
    \/ LoadConvertRow
    \/ BuildAliasData
    \/ LoadWardRow
    \/ BuildOldToNewProvince
    \/ ProcessHospital
    \/ UpdateAscii
    \/ ReadLegacyNoHeader
    \/ ReadConvertNoHeader
    \/ ReadWardsNoHeader

Spec == Init /\ [][Next]_vars

\* The runs in which each of the three reference files has its header line.
\* main() is one sequential thread: whatever step it can take, it takes.
NextParsed ==
    \/ ReadLegacy
    \/ LoadLegacyRow
    \/ FilterDistricts
    \/ LoadConvertRow
    \/ BuildAliasData
    \/ LoadWardRow
    \/ BuildOldToNewProvince
    \/ ProcessHospital
    \/ UpdateAscii

SpecParsed == Init /\ [][NextParsed]_vars /\ WF_vars(NextParsed)

\* the driver with the hospital loop in any order
NextAnyOrder ==
    \/ ReadLegacy
    \/ LoadLegacyRow
    \/ FilterDistricts
    \/ LoadConvertRow
    \/ BuildAliasData
    \/ LoadWardRow
    \/ BuildOldToNewProvince
    \/ ProcessHospitalAnyOrder
    \/ UpdateAscii

SpecAnyOrder == Init /\ [][NextAnyOrder]_vars

\* ---------------------------------------------- pure-function specifications
\* The texts one alias build can be given
AliasNameUniverse == {<<>>, NameDa, NameNa}
StrUniverse == SeqsUpTo(Char, MaxStrLen)

DriverIdle ==
    /\ legacyRows = <<>> /\ convertRows = <<>> /\ newWardRows = <<>>
    /\ i = 1
    /\ districtMap = <<>> /\ oldDistricts = <<>>
    /\ districtToNewProvince = EmptyMap /\ aliasData = EmptyMap
    /\ newWards = <<>> /\ newWardsByProvince = EmptyMap
    /\ oldToNewProvince = EmptyMap
    /\ hospitals = <<>>
    /\ oldMatched = 0 /\ newWardMatched = 0 /\ unmatched = 0
    /\ last = NoLocals /\ todo = {}

\* The normaliser applied to a text, then to its own results
InitNorm == DriverIdle /\ GeoIdle /\ pc = "norm" /\ str \in StrUniverse /\ out = <<>>

Normalize ==
    /\ pc = "norm" /\ out = <<>>
    /\ out' = <<[script |-> removeDiacritics(str), app |-> removeDiacriticsApp(str),
                 key |-> searchKey(str)]>>
    /\ UNCHANGED <<driverVars, str, geoVars>>

NormalizeAgain ==
    /\ pc = "norm" /\ Len(out) = 1
    /\ out' = Append(out, [script |-> removeDiacritics(out[1].script),
                           app |-> removeDiacriticsApp(out[1].app),
                           key |-> searchKey(out[1].key)])
    /\ UNCHANGED <<driverVars, str, geoVars>>

NextNorm == Normalize \/ NormalizeAgain

SpecNorm == InitNorm /\ [][NextNorm]_vars

\* The permutations of 1..n
Perms(n) == {p \in [1..n -> 1..n] : \A a, b \in 1..n : p[a] = p[b] => a = b}

\* One alias build from a list of texts, then one from a permutation of it
InitAlias ==
    /\ DriverIdle /\ GeoIdle /\ pc = "alias"
    /\ str \in SeqsUpTo(AliasNameUniverse, MaxAliasInputs) /\ out = <<>>

AliasBuild ==
    /\ pc = "alias" /\ out = <<>>
    /\ out' = <<BuildAliases(str)>>
    /\ UNCHANGED <<driverVars, str, geoVars>>

AliasBuildPermuted ==
    /\ pc = "alias" /\ Len(out) = 1
    /\ \E p \in Perms(Len(str)) :
          out' = Append(out, BuildAliases([j \in 1..Len(str) |-> str[p[j]]]))
    /\ UNCHANGED <<driverVars, str, geoVars>>

NextAlias == AliasBuild \/ AliasBuildPermuted

SpecAlias == InitAlias /\ [][NextAlias]_vars

\* ------------------------------------------------------------------ claims
\* what the claims say of the latest iteration of the hospital loop
Located == ~isNull(last.coords)
Dist(c, u) == haversine(c.lat, c.lon, u.lat, u.lon)
Numeric(c) == ~isNaN(c.lat) /\ ~isNaN(c.lon)

\* the parsed box of district d contains point c
InBox(c, d) ==
    /\ ~isNull(d.bounds) /\ Numeric(c)
    /\ Val(d.bounds).minLat <= c.lat /\ c.lat <= Val(d.bounds).maxLat
    /\ Val(d.bounds).minLon <= c.lon /\ c.lon <= Val(d.bounds).maxLon

Boxed(c) == {d \in Range(oldDistricts) : InBox(c, d)}

\* C1: when some district's box contains the coordinate, the matched district
\* is one whose box contains it, and none of those is nearer by centroid.
C1_ContainmentNearestBoxed ==
    Located =>
        LET c == Val(last.coords)
        IN Boxed(c) # {} =>
              /\ ~isNull(last.bestMatch)
              /\ Val(last.bestMatch) \in Boxed(c)
              /\ \A e \in Boxed(c) : Dist(c, Val(last.bestMatch)) <= Dist(c, e)

\* a district outside every containing box is nearer than the one matched
C1_Witness ==
    /\ Located /\ Boxed(Val(last.coords)) # {} /\ ~isNull(last.bestMatch)
    /\ \E e \in Range(oldDistricts) \ Boxed(Val(last.coords)) :
          Dist(Val(last.coords), e) < Dist(Val(last.coords), Val(last.bestMatch))

\* the districts nearer than the 15 km radius
Near(c) == {d \in Range(oldDistricts) :
               ~isNaN(Dist(c, d)) /\ Dist(c, d) < FallbackRadius}

\* C2: the fallback decides the match only when no box contains the
\* coordinate; the match is then a district at the minimum centroid distance
\* if that minimum is under 15 km, and there is no match otherwise, 15 km
\* exactly included.
C2_FallbackUnderRadius ==
    Located =>
        LET c == Val(last.coords)
        IN IF Boxed(c) # {} THEN Val(last.bestMatch) \in Boxed(c)
           ELSE IF Near(c) = {} THEN isNull(last.bestMatch)
           ELSE /\ ~isNull(last.bestMatch)
                /\ Val(last.bestMatch) \in Near(c)
                /\ \A e \in Range(oldDistricts) :
                      Dist(c, Val(last.bestMatch)) <= Dist(c, e)

\* the nearest district is at 15 km exactly and nothing is matched
C2_Witness ==
    /\ Located /\ Boxed(Val(last.coords)) = {} /\ isNull(last.bestMatch)
    /\ \E d \in Range(oldDistricts) : Dist(Val(last.coords), d) = FallbackRadius

\* the bucket of a province name, empty when the Map has no such key
Bucket(prov) == IF MapHas(newWardsByProvince, prov) THEN newWardsByProvince[prov] ELSE <<>>

\* C3 as stated: whenever the bucket of the candidate province is non-empty,
\* the selected ward is of that bucket.
C3_Original ==
    (Located /\ ~isNull(last.newProvShort) /\ Bucket(Val(last.newProvShort)) # <<>>) =>
        /\ ~isNull(last.bestNewWard)
        /\ Val(last.bestNewWard) \in Range(Bucket(Val(last.newProvShort)))

\* C3: whenever the candidate province has a non-empty name and its bucket is
\* non-empty, the selected ward is of that bucket.
C3_ScopedToNamedProvince ==
    (Located /\ ~isNull(last.newProvShort) /\ Val(last.newProvShort) # <<>>
       /\ Bucket(Val(last.newProvShort)) # <<>>) =>
        /\ ~isNull(last.bestNewWard)
        /\ Val(last.bestNewWard) \in Range(Bucket(Val(last.newProvShort)))
        /\ Val(last.bestNewWard).provinceShort = Val(last.newProvShort)

\* a ward of another province is nearer than the one selected
C3_Witness ==
    /\ Located /\ ~isNull(last.newProvShort) /\ Val(last.newProvShort) # <<>>
    /\ Bucket(Val(last.newProvShort)) # <<>> /\ ~isNull(last.bestNewWard)
    /\ \E w \in Range(newWards) :
          /\ w.provinceShort # Val(last.newProvShort)
          /\ Dist(Val(last.coords), w) < Dist(Val(last.coords), Val(last.bestNewWard))

\* the first row of rows that satisfies P, as <<row>>, or <<>>
FirstRow(rows, P(_)) ==
    IF \E j \in 1..Len(rows) : P(rows[j])
    THEN <<rows[CHOOSE j \in 1..Len(rows) :
                   P(rows[j]) /\ \A k \in 1..(j - 1) : ~P(rows[k])]>>
    ELSE <<>>

\* the successor province of district d by its conversion record, d's own
\* province when it has none
SuccessorByKey(d) ==
    LET rec == FirstRow(convertRows, LAMBDA r : Key(r) = Key(d))
    IN IF rec = <<>> THEN d.provinceShort ELSE rec[1].newProvinceShort

\* the successor province of d's province name by the first conversion row of
\* that province with both names non-empty, d's own province when there is none
SuccessorByProvince(d) ==
    LET rec == FirstRow(convertRows,
                        LAMBDA r : r.provinceShort = d.provinceShort
                                   /\ r.provinceShort # <<>> /\ r.newProvinceShort # <<>>)
    IN IF rec = <<>> THEN d.provinceShort ELSE rec[1].newProvinceShort

\* C4 as stated: the search scope is the successor province of the conversion
\* record with the matched district's key, the district's own province without one.
C4_Original ==
    (Located /\ ~isNull(last.bestMatch)) =>
        last.newProvShort = Some(SuccessorByKey(Val(last.bestMatch)))

\* C4: the search scope is the successor province short name of the first
\* conversion row whose old province short name is the matched district's
\* (both names non-empty), and the district's own province short name when
\* there is no such row.
C4_ScopeByProvinceName ==
    (Located /\ ~isNull(last.bestMatch)) =>
        last.newProvShort = Some(SuccessorByProvince(Val(last.bestMatch)))

\* the scope is a successor province that differs from the district's own
C4_Witness ==
    /\ Located /\ ~isNull(last.bestMatch)
    /\ last.newProvShort # Some(Val(last.bestMatch).provinceShort)
    /\ last.newProvShort = Some(SuccessorByProvince(Val(last.bestMatch)))

\* the selected ward is of the scope searched and none of the scope is nearer
NearestOfScope ==
    /\ ~isNull(last.bestNewWard)
    /\ Val(last.bestNewWard) \in Range(last.candidateWards)
    /\ \A w \in Range(last.candidateWards) :
          Dist(Val(last.coords), Val(last.bestNewWard)) <= Dist(Val(last.coords), w)

\* without a known candidate province, or with an empty bucket, all wards are searched
FullScopeWithoutBucket ==
    (Located /\ (isNull(last.newProvShort) \/ Bucket(Val(last.newProvShort)) = <<>>)) =>
        last.candidateWards = newWards

LegacyDone == IF pc = "districts" THEN i - 1 ELSE Len(legacyRows)
ConvertDone == IF pc = "conversions" THEN i - 1 ELSE Len(convertRows)

\* C6: the record loaded for a key carries the attributes of the first row
\* with that key, in the district table and in the conversion table, whatever
\* rows follow.
C6_FirstSeenWins ==
    /\ pc \in {"districts", "conversions", "wards"} =>
          \A j \in 1..LegacyDone :
             LET first == FirstRow(legacyRows, LAMBDA r : Key(r) = Key(legacyRows[j]))
                 held == {k \in 1..Len(districtMap) : Key(districtMap[k]) = Key(legacyRows[j])}
             IN /\ Cardinality(held) = 1
                /\ \A k \in held : districtMap[k] = DistrictOf(first[1])
    /\ pc \in {"conversions", "wards"} =>
          \A j \in 1..ConvertDone :
             LET first == FirstRow(convertRows, LAMBDA r : Key(r) = Key(convertRows[j]))
             IN /\ MapHas(districtToNewProvince, Key(convertRows[j]))
                /\ districtToNewProvince[Key(convertRows[j])] = NewProvinceOf(first[1])

\* both tables hold two different rows of one key
C6_Witness ==
    /\ pc = "wards"
    /\ Len(legacyRows) = 2 /\ Key(legacyRows[1]) = Key(legacyRows[2])
    /\ DistrictOf(legacyRows[1]) # DistrictOf(legacyRows[2])
    /\ Len(convertRows) = 2 /\ Key(convertRows[1]) = Key(convertRows[2])
    /\ NewProvinceOf(convertRows[1]) # NewProvinceOf(convertRows[2])

\* C7: the aliases written on a facility hold no empty text and no text twice.
C7_AliasesNoEmptyNoDuplicate ==
    \A k \in 1..Len(hospitals) :
       ~isNull(hospitals[k].aliases) =>
          LET a == Val(hospitals[k].aliases)
          IN /\ <<>> \notin Range(a)
             /\ \A x, y \in 1..Len(a) : a[x] = a[y] => x = y

\* the Set was given an empty text and one text twice
C7_Witness ==
    /\ pc = "hospitals" /\ i > 1 /\ Located
    /\ ~isNull(hospitals[i - 1].aliases)
    /\ <<>> \in Range(last.added)
    /\ \E x, y \in 1..Len(last.added) : x # y /\ last.added[x] = last.added[y]
                                          /\ last.added[x] # <<>>

\* C8: the aliases of a facility matched to district d and ward w hold every
\* non-empty text among d's long and short names, d's province short name,
\* the successor province short name of d's conversion record (d's own
\* province without one), w's long and short names and, when d's province is
\* flagged as changed, the province short name of before the reorganization.
C8_AliasContents ==
    (pc \in {"hospitals", "done"} /\ Located
       /\ ~isNull(last.bestMatch) /\ ~isNull(last.bestNewWard)) =>
        LET d == Val(last.bestMatch)
            w == Val(last.bestNewWard)
            changed == IF aliasData[Key(d)].provinceChanged
                       THEN {aliasData[Key(d)].oldProvince} ELSE {}
        IN (({d.district, d.districtShort, d.provinceShort, SuccessorByKey(d),
              w.ward, w.wardShort} \cup changed) \ {<<>>})
              \subseteq Range(Val(hospitals[i - 1].aliases))

\* the district's province is flagged as changed and its successor differs
C8_Witness ==
    /\ pc = "hospitals" /\ Located
    /\ ~isNull(last.bestMatch) /\ ~isNull(last.bestNewWard)
    /\ SuccessorByKey(Val(last.bestMatch)) \notin {<<>>, Val(last.bestMatch).provinceShort}
    /\ aliasData[Key(Val(last.bestMatch))].provinceChanged
    /\ SuccessorByKey(Val(last.bestMatch)) \in Range(Val(hospitals[i - 1].aliases))

\* C9: two alias builds from the same texts, added in different orders, hold
\* the same texts.
C9_AliasOrderInsensitive ==
    (pc = "alias" /\ Len(out) = 2) => Range(out[1]) = Range(out[2])

\* the two builds list their texts in different orders
C9_Witness == pc = "alias" /\ Len(out) = 2 /\ out[1] # out[2] /\ <<>> \in Range(str)

\* C10: removeDiacritics applied to its own result gives that result, in the
\* scripts and in the front end, and so does the search-key derivation.
C10_NormalizeIdempotent ==
    (pc = "norm" /\ Len(out) = 2) => out[2] = out[1]

\* the text "Da" with stroke and grave accent folds to "Da", and its key to "da"
C10_Witness ==
    /\ pc = "norm" /\ Len(out) = 2 /\ str = NameDa
    /\ out[1].script = <<"D", "a">> /\ out[1].key = <<"d", "a">>

\* the lower-case ASCII letters among Char
LowerAscii == {"a", "d", "n"}

\* the search keys a record carries
KeysOf(h) ==
    UNION {IF isNull(f) THEN {} ELSE {Val(f)} : f \in {h.nameAscii, h.districtAscii, h.cityAscii}}
       \cup (IF isNull(h.aliasesAscii) THEN {} ELSE Range(Val(h.aliasesAscii)))

\* C11 as stated: every search key on a record (nameAscii, districtAscii,
\* cityAscii, each entry of aliasesAscii) is lower-case and ASCII only.
C11_Original ==
    \A k \in 1..Len(hospitals) :
       \A key \in KeysOf(hospitals[k]) : Range(key) \subseteq LowerAscii

\* The folding of one character as the claim words it: the base letter of its
\* decomposition without the marks of U+0300..U+036F, d with stroke to the
\* plain d of its own case, any other character as it is.
FoldChar == [c \in Char |->
    CASE c = "a_grave" -> <<"a">>
      [] c = "A_GRAVE" -> <<"A">>
      [] c = "grave" -> <<>>
      [] c = "d_stroke" -> <<"d">>
      [] c = "D_STROKE" -> <<"D">>
      [] OTHER -> <<c>>]

\* the same folding with both cases of d with stroke sent to lower-case d
FoldCharOneCase == [FoldChar EXCEPT !["D_STROKE"] = <<"d">>]

\* C12 as stated: every removeDiacritics of the repository strips the marks
\* after decomposition and maps d with stroke to the plain d of the same case.
C12_Original ==
    (pc = "norm" /\ Len(out) >= 1) =>
        /\ out[1].script = FlatMap(FoldChar, str)
        /\ out[1].app = FlatMap(FoldChar, str)

\* C12: removeDiacritics of the scripts strips the marks after decomposition
\* and maps d with stroke to the plain d of the same case; removeDiacritics of
\* the front end strips the same marks and maps both cases of d with stroke to
\* lower-case d.
C12_FoldingPerVariant ==
    (pc = "norm" /\ Len(out) >= 1) =>
        /\ out[1].script = FlatMap(FoldChar, str)
        /\ out[1].app = FlatMap(FoldCharOneCase, str)

\* an upper-case d with stroke and a precomposed letter, folded both ways
C12_Witness ==
    /\ pc = "norm" /\ Len(out) = 1 /\ str = NameDa
    /\ out[1].script = <<"D", "a">> /\ out[1].app = <<"d", "a">>

\* the record has no map link or a link without the query parameter
NoQuery(h) == h.mapsUrl = <<>> \/ Head(h.mapsUrl) # "query="

\* the administrative fields of a record
Admin(h) == <<h.oldDistrict, h.oldProvince, h.newWard, h.newProvince,
              h.aliases, h.aliasesAscii>>

\* C13: no step of the hospital loop or of the write-back changes an
\* administrative field of a record without map link or query parameter (a
\* field that came unset stays unset), and the iteration of such a record adds
\* exactly one to the unmatched counter and nothing to the two others.
C13_NoCoordinateNothingWritten ==
    [][pc = "hospitals" =>
         /\ \A k \in 1..Len(hospitals) :
               NoQuery(hospitals[k]) => Admin(hospitals'[k]) = Admin(hospitals[k])
         /\ (i <= Len(hospitals) /\ NoQuery(hospitals[i])) =>
               /\ unmatched' = unmatched + 1
               /\ oldMatched' = oldMatched /\ newWardMatched' = newWardMatched]_vars

\* a run has ended on a record without map link, its fields unset, and on a
\* record without query parameter that keeps the fields it came with
C13_Witness ==
    /\ pc = "done" /\ Len(hospitals) = 2 /\ unmatched = 2
    /\ hospitals[1].mapsUrl = <<>> /\ Admin(hospitals[1]) = <<null, null, null, null, null, null>>
    /\ hospitals[2].mapsUrl = <<"maps">> /\ Admin(hospitals[2]) = Admin(FacilityEnrichedBefore)

\* the fields of a record the driver only reads or does not use
Kept(h) == <<h.name, h.city, h.district, h.address, h.mapsUrl>>

\* C14: from the moment the collection is read, every step leaves it with the
\* same number of records, each at its place with the same fields and with
\* its name, city, district, address and map link as they were.
C14_CollectionPreserved ==
    [][pc = "hospitals" =>
         /\ Len(hospitals') = Len(hospitals)
         /\ \A k \in 1..Len(hospitals) :
               /\ DOMAIN hospitals'[k] = DOMAIN hospitals[k]
               /\ Kept(hospitals'[k]) = Kept(hospitals[k])]_vars

\* a run has ended on two different records, the first one enriched with a
\* district, a ward, aliases and its keys
C14_Witness ==
    /\ pc = "done" /\ Len(hospitals) = 2
    /\ Kept(hospitals[1]) # Kept(hospitals[2])
    /\ ~isNull(hospitals[1].oldDistrict) /\ ~isNull(hospitals[1].newWard)
    /\ ~isNull(hospitals[1].aliases) /\ Val(hospitals[1].aliases) # <<>>
    /\ hospitals[1].nameAscii = Some(<<"d", "a", "n">>)
    /\ Kept(hospitals[1]) = Kept(Facility(<<"query=", "0.05", "0.05">>, NameDan))

\* with no district loaded no facility is matched to a district, with no ward
\* loaded none is matched to a ward, and the counts stay at zero
NoMatchWithoutReference ==
    /\ (pc \in {"hospitals", "done"} /\ oldDistricts = <<>>) =>
          oldMatched = 0 /\ isNull(last.bestMatch)
    /\ (pc \in {"hospitals", "done"} /\ newWards = <<>>) =>
          newWardMatched = 0 /\ isNull(last.bestNewWard)

\* C15 as stated: an empty reference dataset never makes the run throw; with
\* no district rows no facility gets an old district, with no ward rows none
\* gets a ward, and the counts reported are zero.
C15_Original == pc # "thrown" /\ NoMatchWithoutReference

Processed == IF pc \in {"hospitals", "done"} THEN 1..(i - 1) ELSE {}

\* an old district is resolved for h: its link gives a coordinate that a box
\* contains or that is within the radius of a centroid
ResolvedOld(h) ==
    LET coords == extractCoords(h.mapsUrl)
    IN ~isNull(coords) /\ (Boxed(Val(coords)) # {} \/ Near(Val(coords)) # {})

\* a new ward is resolved for h: its link gives a numeric coordinate and there
\* is a ward to be nearest to
ResolvedNew(h) ==
    LET coords == extractCoords(h.mapsUrl)
    IN ~isNull(coords) /\ Numeric(Val(coords)) /\ newWards # <<>>

\* C17: throughout the loop and at the report, matched-to-old is the number of
\* facilities gone through for which an old district was resolved, each of
\* which carries oldDistrict and oldProvince of a loaded district, and
\* matched-to-new is the number for which a new ward was resolved, each of
\* which carries newWard and newProvince of a loaded ward.
C17_StatisticsExact ==
    /\ oldMatched = Cardinality({k \in Processed : ResolvedOld(hospitals[k])})
    /\ newWardMatched = Cardinality({k \in Processed : ResolvedNew(hospitals[k])})
    /\ \A k \in Processed :
          /\ ResolvedOld(hospitals[k]) =>
                \E d \in Range(oldDistricts) :
                   /\ hospitals[k].oldDistrict = Some(d.districtShort)
                   /\ hospitals[k].oldProvince = Some(d.provinceShort)
          /\ ResolvedNew(hospitals[k]) =>
                \E w \in Range(newWards) :
                   /\ hospitals[k].newWard = Some(w.wardShort)
                   /\ hospitals[k].newProvince = Some(w.provinceShort)

\* at the report one facility counts for both, and another that came with the
\* four fields of an earlier run counts for neither
C17_Witness ==
    /\ pc = "done" /\ oldMatched = 1 /\ newWardMatched = 1 /\ Len(hospitals) = 2
    /\ \E k \in Processed :
          /\ ~ResolvedOld(hospitals[k]) /\ ~ResolvedNew(hospitals[k])
          /\ ~isNull(hospitals[k].oldDistrict) /\ ~isNull(hospitals[k].newWard)

\* the record of the latest iteration carries the short names of the district
\* and of the ward that iteration matched
ShortNamesWritten ==
    LET h == hospitals[i - 1]
        d == Val(last.bestMatch)
        w == Val(last.bestNewWard)
    IN /\ h.oldDistrict = Some(d.districtShort) /\ h.oldProvince = Some(d.provinceShort)
       /\ h.newWard = Some(w.wardShort) /\ h.newProvince = Some(w.provinceShort)

\* the matched ward is of scope and no ward of scope is nearer
NearestIn(scope) ==
    /\ Val(last.bestNewWard) \in Range(scope)
    /\ \A v \in Range(scope) :
          Dist(Val(last.coords), Val(last.bestNewWard)) <= Dist(Val(last.coords), v)

\* C18 as stated: the four fields are the short names of d and w, and w is the
\* nearest ward of the bucket of d's mapped successor province.
C18_Original ==
    (Located /\ ~isNull(last.bestMatch) /\ ~isNull(last.bestNewWard)) =>
        /\ ShortNamesWritten
        /\ NearestIn(Bucket(Val(last.newProvShort)))

\* C18: for a facility matched to old district d and new ward w the four
\* fields are the short names of d, of d's province, of w and of w's province;
\* w is the nearest ward of the bucket of d's mapped successor province when
\* that province has a non-empty name and a bucket, and the nearest of all
\* loaded wards otherwise.
C18_WrittenFieldValues ==
    (Located /\ ~isNull(last.bestMatch) /\ ~isNull(last.bestNewWard)) =>
        /\ ShortNamesWritten
        /\ IF Val(last.newProvShort) # <<>> /\ Bucket(Val(last.newProvShort)) # <<>>
           THEN NearestIn(Bucket(Val(last.newProvShort)))
           ELSE NearestIn(newWards)

\* the facility is matched to a district whose province has a successor of
\* another name, and to a ward of that successor's bucket
C18_Witness ==
    /\ Located /\ ~isNull(last.bestMatch) /\ ~isNull(last.bestNewWard)
    /\ Val(last.newProvShort) # Val(last.bestMatch).provinceShort
    /\ Bucket(Val(last.newProvShort)) # <<>>
    /\ hospitals[i - 1].newProvince = last.newProvShort
    /\ hospitals[i - 1].oldProvince # hospitals[i - 1].newProvince

\* what one iteration of the loop makes of facility h, from h and the
\* reference collections alone
Outcome(h) ==
    LET coords == extractCoords(h.mapsUrl)
    IN IF isNull(coords) THEN h
       ELSE LET bestMatch == LocateOldUnit(Val(coords))
                bestNewWard == NearestWard(CandidateWards(NewProvShort(bestMatch)),
                                           Val(coords), NoBest).match
            IN Enriched(h, bestMatch, bestNewWard,
                        BuildAliases(OldAliasInputs(bestMatch) \o NewAliasInputs(bestNewWard)))

\* the facilities gone through, whatever the order
Through == IF pc \in {"hospitals", "done"} THEN DOMAIN hospitals \ todo ELSE {}

\* the collections the locators read
Reference == <<oldDistricts, aliasData, newWards, newWardsByProvince, oldToNewProvince>>

\* every record gone through is what its own link and the reference
\* collections make of it, and the three counts are those of the records gone
\* through
ResultsByRecord ==
    /\ \A k \in Through : hospitals[k] = Outcome(hospitals[k])
    /\ oldMatched = Cardinality({k \in Through : ResolvedOld(hospitals[k])})
    /\ newWardMatched = Cardinality({k \in Through : ResolvedNew(hospitals[k])})
    /\ unmatched = Cardinality({k \in Through :
                       ~ResolvedOld(hospitals[k]) /\ ~ResolvedNew(hospitals[k])})

\* an iteration leaves the reference collections and every other record as
\* they are
OwnRecordOnly ==
    (pc = "hospitals" /\ pc' = "hospitals") =>
        /\ Reference' = Reference
        /\ \E k \in todo :
              /\ todo' = todo \ {k}
              /\ hospitals' = [hospitals EXCEPT ![k] = Outcome(hospitals[k])]

NumericCentroid(u) == ~isNaN(u.lat) /\ ~isNaN(u.lon)

\* row j of the legacy table is the first with its key
FirstOfKey(j) == \A k \in 1..(j - 1) : Key(legacyRows[k]) # Key(legacyRows[j])

\* no loaded district, no loaded ward and no ward of a bucket is without a
\* numeric centroid, and neither is a unit a locator searched or matched
OnlyNumericLoaded ==
    /\ \A d \in Range(oldDistricts) : NumericCentroid(d)
    /\ \A w \in Range(newWards) : NumericCentroid(w)
    /\ \A p \in DOMAIN newWardsByProvince :
          \A w \in Range(newWardsByProvince[p]) : NumericCentroid(w)
    /\ \A w \in Range(last.candidateWards) : NumericCentroid(w)
    /\ ~isNull(last.bestMatch) => NumericCentroid(Val(last.bestMatch))
    /\ ~isNull(last.bestNewWard) => NumericCentroid(Val(last.bestNewWard))

\* once the districts are filtered, the first row of each key is loaded when
\* its centroid is numeric and its key is absent when it is not, whatever rows
\* come before or after it
DistrictLoadGoesOn ==
    pc \in {"conversions", "wards"} =>
        \A j \in 1..Len(legacyRows) :
            FirstOfKey(j) =>
                IF NumericCentroid(DistrictOf(legacyRows[j]))
                THEN DistrictOf(legacyRows[j]) \in Range(oldDistricts)
                ELSE \A d \in Range(oldDistricts) : Key(d) # Key(legacyRows[j])

\* the wards loaded so far are those of the rows gone through that have a
\* numeric centroid, in the order of the rows
WardLoadGoesOn ==
    pc = "wards" =>
        LET kept == SelectSeq(SubSeq(newWardRows, 1, i - 1),
                              LAMBDA r : NumericCentroid(WardOf(r)))
        IN newWards = [j \in 1..Len(kept) |-> WardOf(kept[j])]

\* C20: a district row or ward row whose centroid latitude or longitude is
\* not a number is not in the loaded collection, is no candidate and no match
\* of either locator, and the rows around it are loaded as without it.
C20_NonNumericCentroidDropped ==
    OnlyNumericLoaded /\ DistrictLoadGoesOn /\ WardLoadGoesOn

\* both tables start with a row without a numeric centroid and go on with a
\* row that is loaded
C20_Witness ==
    /\ pc = "wards" /\ i > Len(newWardRows)
    /\ Len(legacyRows) = 2 /\ ~NumericCentroid(DistrictOf(legacyRows[1]))
    /\ Len(oldDistricts) = 1 /\ oldDistricts[1] = DistrictOf(legacyRows[2])
    /\ Len(newWardRows) = 2 /\ ~NumericCentroid(WardOf(newWardRows[1]))
    /\ newWards = <<WardOf(newWardRows[2])>>

\* ------------------------------------------------- the CSV export and import
\* Characters of a CSV file: letters, the comma, the double quote, the space
\* and the line feed.
CsvPlain == {"a", "b", "c", "d", "e", "f", "g", "h", "i", "j", "k", "l"}
CsvChar == CsvPlain \cup {"comma", "quote", "space", "newline"}

\* json-to-csv.js line 14
ExportCOLUMNS == <<"name", "type", "district", "city", "oldDistrict", "oldProvince",
                   "newWard", "newProvince", "address", "phone", "website", "mapsUrl">>

\* csv-to-json.js line 84
ImportCOLUMNS == <<"name", "type", "district", "city", "address", "phone", "website",
                   "mapsUrl">>

\* str.replace(/"/g, '""')
doubleQuotes(s) ==
    LET map[t \in Seq(CsvChar)] ==
            IF t = <<>> THEN <<>>
            ELSE (IF Head(t) = "quote" THEN <<"quote", "quote">> ELSE <<Head(t)>>)
                 \o map[Tail(t)]
    IN  map[s]

\* json-to-csv.js lines 16-23; val is null or <<text>>
escapeCSV(val) ==
    IF isNull(val) \/ Val(val) = <<>> THEN <<>>
    ELSE IF Range(Val(val)) \cap {"comma", "quote", "newline"} # {}
    THEN <<"quote">> \o doubleQuotes(Val(val)) \o <<"quote">>
    ELSE Val(val)

\* Array.prototype.join
join(parts, sep) ==
    LET cat[k \in 0..Len(parts)] ==
            IF k = 0 THEN <<>>
            ELSE IF k = 1 THEN parts[1]
            ELSE cat[k - 1] \o sep \o parts[k]
    IN  cat[Len(parts)]

\* json-to-csv.js lines 25-28: the file written for a collection
exportCSV(data) ==
    LET header == join([c \in 1..Len(ExportCOLUMNS) |->
                           <<ExportCOLUMNS[c]>>], <<"comma">>)
        rows == [r \in 1..Len(data) |->
                    join([c \in 1..Len(ExportCOLUMNS) |->
                             escapeCSV(data[r][ExportCOLUMNS[c]])], <<"comma">>)]
    IN  join(<<header>> \o rows, <<"newline">>)

\* String.prototype.split("\n")
splitLines(text) ==
    LET split[k \in 0..Len(text)] ==
            \* the lines of the first k characters, the last one still open
            IF k = 0 THEN <<<<>>>>
            ELSE LET done == split[k - 1]
                 IN IF text[k] = "newline" THEN Append(done, <<>>)
                    ELSE [done EXCEPT ![Len(done)] = Append(@, text[k])]
    IN  split[Len(text)]

Whitespace == {"space", "newline"}

\* String.prototype.trim
trim(s) ==
    IF \A k \in 1..Len(s) : s[k] \in Whitespace THEN <<>>
    ELSE LET from == CHOOSE a \in 1..Len(s) :
                        s[a] \notin Whitespace /\ \A k \in 1..(a - 1) : s[k] \in Whitespace
             to == CHOOSE b \in 1..Len(s) :
                        s[b] \notin Whitespace /\ \A k \in (b + 1)..Len(s) : s[k] \in Whitespace
         IN SubSeq(s, from, to)

\* csv-to-json.js lines 46-75: the state of the scan after the characters
\* before position k, then the fields
parseCSVRow(row) ==
    LET scan[k \in 1..(Len(row) + 1)] ==
            IF k = 1 THEN [fields |-> <<>>, current |-> <<>>, inQuotes |-> FALSE, skip |-> FALSE]
            ELSE LET s == scan[k - 1]
                     ch == row[k - 1]
                 IN IF s.skip THEN [s EXCEPT !.skip = FALSE]
                    ELSE IF s.inQuotes
                    THEN IF ch = "quote" /\ k <= Len(row) /\ row[k] = "quote"
                         THEN [s EXCEPT !.current = Append(@, "quote"), !.skip = TRUE]
                         ELSE IF ch = "quote" THEN [s EXCEPT !.inQuotes = FALSE]
                         ELSE [s EXCEPT !.current = Append(@, ch)]
                    ELSE IF ch = "quote" THEN [s EXCEPT !.inQuotes = TRUE]
                         ELSE IF ch = "comma"
                         THEN [s EXCEPT !.fields = Append(@, trim(s.current)),
                                        !.current = <<>>]
                         ELSE [s EXCEPT !.current = Append(@, ch)]
        end == scan[Len(row) + 1]
    IN  Append(end.fields, trim(end.current))

\* (current.match(/"/g) || []).length
quoteCount(s) == Cardinality({k \in 1..Len(s) : s[k] = "quote"})

\* csv-to-json.js lines 21-44
parseCSV(text) ==
    LET lines == splitLines(text)
        loop[k \in 0..Len(lines)] ==
            IF k = 0 THEN [rows |-> <<>>, current |-> <<>>, inQuotes |-> FALSE]
            ELSE LET s == loop[k - 1]
                     current == IF s.inQuotes THEN s.current \o <<"newline">> \o lines[k]
                                ELSE lines[k]
                 IN IF quoteCount(current) % 2 # 0
                    THEN [s EXCEPT !.current = current, !.inQuotes = TRUE]
                    ELSE [rows |-> Append(s.rows, parseCSVRow(current)),
                          current |-> <<>>, inQuotes |-> FALSE]
    IN  loop[Len(lines)].rows

\* csv-to-json.js lines 86-98 without the search keys: row[i] || ""
importRow(row) ==
    [c \in Range(ImportCOLUMNS) |->
        LET n == CHOOSE k \in 1..Len(ImportCOLUMNS) : ImportCOLUMNS[k] = c
        IN IF n <= Len(row) THEN row[n] ELSE <<>>]

\* csv-to-json.js lines 79-98: the records of a file, before the sort
importCSV(text) ==
    LET rows == parseCSV(text)
        dataRows == SelectSeq(SubSeq(rows, 2, Len(rows)),
                              LAMBDA r : Len(r) >= 2 /\ r[1] # <<>>)
    IN  [r \in 1..Len(dataRows) |-> importRow(dataRows[r])]

\* A facility of hospitals.json with a different one-letter value in each
\* column
CsvFacility ==
    [name |-> Some(<<"a">>), type |-> Some(<<"b">>), district |-> Some(<<"c">>),
     city |-> Some(<<"d">>), oldDistrict |-> Some(<<"e">>), oldProvince |-> Some(<<"f">>),
     newWard |-> Some(<<"g">>), newProvince |-> Some(<<"h">>), address |-> Some(<<"i">>),
     phone |-> Some(<<"j">>), website |-> Some(<<"k">>), mapsUrl |-> Some(<<"l">>)]

\* The values one column is given: absent, or a text of up to MaxCsvLen
\* characters
MaxCsvLen == 2
CsvValueUniverse ==
    {null} \cup {Some(t) : t \in SeqsUpTo({"a", "comma", "quote", "space", "newline"}, MaxCsvLen)}

\* The facilities exported: CsvFacility with one column given another value,
\* before enrichment (the four administrative columns absent) or after it
CsvFacilityUniverse ==
    LET plain == [CsvFacility EXCEPT !.oldDistrict = null, !.oldProvince = null,
                                     !.newWard = null, !.newProvince = null]
    IN  {[f EXCEPT ![c] = v] : f \in {CsvFacility, plain},
                                c \in Range(ExportCOLUMNS), v \in CsvValueUniverse}

\* A collection of one facility is exported, then the file is imported
InitCsv ==
    /\ DriverIdle /\ GeoIdle /\ pc = "csv"
    /\ str \in {<<f>> : f \in CsvFacilityUniverse} /\ out = <<>>

ExportCsv ==
    /\ pc = "csv" /\ out = <<>>
    /\ out' = <<exportCSV(str)>>
    /\ UNCHANGED <<driverVars, str, geoVars>>

ImportCsv ==
    /\ pc = "csv" /\ Len(out) = 1
    /\ out' = Append(out, importCSV(out[1]))
    /\ UNCHANGED <<driverVars, str, geoVars>>

NextCsv == ExportCsv \/ ImportCsv

SpecCsv == InitCsv /\ [][NextCsv]_vars

\* C21 as stated: the imported collection has a record for the facility
\* exported, with the same name, type, district, city, address, phone, website
\* and map link.
C21_Original ==
    (pc = "csv" /\ Len(out) = 2) =>
        /\ Len(out[2]) = 1
        /\ \A c \in Range(ImportCOLUMNS) : out[2][1][c] = OrEmpty(str[1][c])

\* --------------------------------------------------- the distance on its own
\* The numbers a latitude or a longitude can be: the doubles of Doubles and NaN
NumberUniverse == (0..(Len(Doubles) - 1)) \cup {NaN}

\* Two points are given; the distance is taken from the first to the second,
\* then from the second to the first and from each point to itself
InitHav ==
    /\ DriverIdle /\ GeoIdle /\ pc = "hav"
    /\ str \in [{"lat1", "lon1", "lat2", "lon2"} -> NumberUniverse] /\ out = <<>>

MeasureThere ==
    /\ pc = "hav" /\ out = <<>>
    /\ out' = <<haversine(str.lat1, str.lon1, str.lat2, str.lon2)>>
    /\ UNCHANGED <<driverVars, str, geoVars>>

MeasureBack ==
    /\ pc = "hav" /\ Len(out) = 1
    /\ out' = out \o <<haversine(str.lat2, str.lon2, str.lat1, str.lon1),
                       haversine(str.lat1, str.lon1, str.lat1, str.lon1),
                       haversine(str.lat2, str.lon2, str.lat2, str.lon2)>>
    /\ UNCHANGED <<driverVars, str, geoVars>>

NextHav == MeasureThere \/ MeasureBack

SpecHav == InitHav /\ [][NextHav]_vars

ComponentUniverse == {"", "0", "0.1", "abc"}
MaxParts == 3
MaxComponents == 2

\* The bounds texts: 1 to MaxParts parts around the dash, each of 1 to
\* MaxComponents components around the comma
BoundsUniverse ==
    SeqsUpTo(SeqsUpTo(ComponentUniverse, MaxComponents) \ {<<>>}, MaxParts) \ {<<>>}

InitBounds == DriverIdle /\ GeoIdle /\ pc = "bounds" /\ str \in BoundsUniverse /\ out = <<>>

ParseBounds ==
    /\ pc = "bounds" /\ out = <<>>
    /\ out' = <<parseBounds(str)>>
    /\ UNCHANGED <<driverVars, str, geoVars>>

NextBounds == ParseBounds

SpecBounds == InitBounds /\ [][NextBounds]_vars

\* a box with its corners in order on both axes
Ordered(box) == box.minLat <= box.maxLat /\ box.minLon <= box.maxLon

\* a bounds text of two parts, each with a latitude and a longitude that are
\* decimal numbers
WellFormed(boundsStr) ==
    /\ Len(boundsStr) = 2
    /\ \A p \in 1..2 :
          /\ Len(boundsStr[p]) >= 2
          /\ \A k \in 1..2 : boundsStr[p][k] \in Range(Doubles)

\* C23 as stated: the result is absent or a box with min <= max on both axes,
\* and it is absent for every text with a wrong number of parts or with a
\* missing, empty or non-numeric component.
C23_Original ==
    (pc = "bounds" /\ Len(out) = 1) =>
        /\ isNull(out[1]) \/ Ordered(Val(out[1]))
        /\ ~WellFormed(str) => isNull(out[1])

\* the conversion record of a key: the first conversion row with that key, as
\* <<row>>, or <<>>
ConversionRecord(key) == FirstRow(convertRows, LAMBDA r : Key(r) = key)

\* C24: once the lookup artifact is built its keys are the keys of the loaded
\* districts, one entry each; an entry's newProvince is the successor province
\* short name of the conversion record of its key, its provinceChanged that
\* record's flag, and without such a record they are the district's own
\* province short name and false.
C24_ArtifactPerDistrictKey ==
    pc \in {"wards", "hospitals", "done"} =>
        /\ DOMAIN aliasData = {Key(d) : d \in Range(oldDistricts)}
        /\ \A a, b \in 1..Len(oldDistricts) :
              Key(oldDistricts[a]) = Key(oldDistricts[b]) => a = b
        /\ \A d \in Range(oldDistricts) :
              LET rec == ConversionRecord(Key(d))
                  entry == aliasData[Key(d)]
              IN /\ entry.oldProvince = d.provinceShort
                 /\ entry.oldDistrictShort = d.districtShort
                 /\ IF rec = <<>>
                    THEN entry.newProvince = d.provinceShort /\ entry.provinceChanged = FALSE
                    ELSE /\ entry.newProvince = rec[1].newProvinceShort
                         /\ entry.provinceChanged = (rec[1].isMergedProvince = "True")

\* the artifact has an entry with a conversion record that changes the
\* province and an entry without conversion record
C24_Witness ==
    /\ pc = "wards" /\ Cardinality(DOMAIN aliasData) = 2
    /\ \E k \in DOMAIN aliasData :
          /\ ConversionRecord(k) # <<>> /\ aliasData[k].provinceChanged
          /\ aliasData[k].newProvince # aliasData[k].oldProvince
    /\ \E k \in DOMAIN aliasData : ConversionRecord(k) = <<>>

\* ------------------------------------------------- C25: valid coordinates
\* the least number of the model beyond the longitudes, and so beyond the
\* latitudes, of a valid pair; the numbers below it are between 0 and 0.14
BeyondRange == parseFloat("359.87")

\* lat within [-90, 90] and lon within [-180, 180]
ValidPair(c) == Numeric(c) /\ c.lat < BeyondRange /\ c.lon < BeyondRange

\* C25: the coordinate the locators of the latest iteration ran on is a valid
\* pair, and a coordinate that is no valid pair is matched to no old district
\* and to no new ward.
C25_Original ==
    (pc \in {"hospitals", "done"} /\ ~isNull(last.coords)) =>
        /\ ValidPair(Val(last.coords))
        /\ ~ValidPair(Val(last.coords)) =>
              isNull(last.bestMatch) /\ isNull(last.bestNewWard)

\* --------------------------------------------- the geocode cache (C26)
\* reverse-geocode, main: the loop of lines 414-455 over the facilities, with
\* the run interrupted and started again.  A facility is the cache key of the
\* coordinate of its map link, `${coords.lat},${coords.lon}`, here a number
\* from 1, or 0 when extractCoords gives null.  The value cached for a key is
\* the parsed answer of the service, an object and so truthy; the cache is
\* the set of its keys.
SaveEvery == 50
MaxGeoFacilities == 51
MaxRuns == 2
MaxFailures == 1

CacheKeys == 1..MaxGeoFacilities

\* facility k has coordinate k
DistinctCoords(n) == [k \in 1..n |-> k]

\* The collections geocoded: one facility, a facility without coordinate
\* before it, a coordinate shared by two facilities, MaxGeoFacilities
\* facilities with a coordinate each, and the same where the facility that
\* is number SaveEvery has the coordinate of the one before.
GeoFacilityUniverse ==
    {<<1>>, <<0, 1>>, <<1, 1>>, DistinctCoords(MaxGeoFacilities),
     [DistinctCoords(MaxGeoFacilities) EXCEPT ![SaveEvery] = SaveEvery - 1]}

\* lines 398-412: the facilities are read and the cache file, if there is one,
\* is loaded; a key of the file was served in the run that wrote it
InitGeocode ==
    /\ DriverIdle /\ pc = "geocode"
    /\ str \in GeoFacilityUniverse /\ out = <<>>
    /\ cacheFile \in {{}, {1}} /\ cache = cacheFile
    /\ updated = 0 /\ runs = 1 /\ failures = 0
    /\ served = [k \in CacheKeys |-> IF k \in cacheFile THEN 1 ELSE 0]

\* the driver variables the geocoding leaves alone
geoIdleVars == <<legacyRows, convertRows, newWardRows, districtMap, oldDistricts,
                 districtToNewProvince, aliasData, newWards, newWardsByProvince,
                 oldToNewProvince, hospitals, oldMatched, newWardMatched, unmatched,
                 last, todo, str, out>>

\* lines 415-420: no coordinate, the facility is skipped
GeocodeSkip ==
    /\ pc = "geocode" /\ i <= Len(str) /\ str[i] = 0
    /\ i' = i + 1
    /\ UNCHANGED <<pc, geoIdleVars, geoVars>>

\* lines 422-429: the key is in the cache, the service is not asked
GeocodeCached ==
    /\ pc = "geocode" /\ i <= Len(str) /\ str[i] # 0 /\ str[i] \in cache
    /\ updated' = updated + 1
    /\ i' = i + 1
    /\ UNCHANGED <<pc, geoIdleVars, cache, cacheFile, served, runs, failures>>

\* line 445: updated % 50 === 0
SaveDue(n) == n % SaveEvery = 0

\* lines 432-449: the service answers; the answer is cached, and the cache
\* written to its file when updated is a multiple of SaveEvery
GeocodeRequest ==
    /\ pc = "geocode" /\ i <= Len(str) /\ str[i] # 0 /\ str[i] \notin cache
    /\ cache' = cache \cup {str[i]}
    /\ served' = [served EXCEPT ![str[i]] = @ + 1]
    /\ updated' = updated + 1
    /\ cacheFile' = IF SaveDue(updated') THEN cache' ELSE cacheFile
    /\ i' = i + 1
    /\ UNCHANGED <<pc, geoIdleVars, runs, failures>>

\* lines 450-454: the request fails; nothing is cached
GeocodeError ==
    /\ pc = "geocode" /\ i <= Len(str) /\ str[i] # 0 /\ str[i] \notin cache
    /\ failures < MaxFailures
    /\ failures' = failures + 1
    /\ i' = i + 1
    /\ UNCHANGED <<pc, geoIdleVars, cache, cacheFile, updated, served, runs>>

\* line 458: the final save of the cache
GeocodeFinish ==
    /\ pc = "geocode" /\ i > Len(str)
    /\ cacheFile' = cache
    /\ pc' = "geodone"
    /\ UNCHANGED <<i, geoIdleVars, cache, updated, served, runs, failures>>

\* the run is interrupted between two iterations or before the final save and
\* started again: lines 398-412 with the cache file as the run left it
GeocodeInterrupt ==
    /\ pc = "geocode" /\ runs < MaxRuns
    /\ runs' = runs + 1
    /\ cache' = cacheFile
    /\ updated' = 0
    /\ i' = 1
    /\ UNCHANGED <<pc, geoIdleVars, cacheFile, served, failures>>

NextGeocode ==
    \/ GeocodeSkip
    \/ GeocodeCached
    \/ GeocodeRequest
    \/ GeocodeError
    \/ GeocodeFinish
    \/ GeocodeInterrupt

SpecGeocode == InitGeocode /\ [][NextGeocode]_vars

\* C26: no coordinate is answered by the service more than once, over the
\* interrupted run and the run started after it: what a run was answered is
\* in the cache file for the next.
C26_Original == pc \in {"geocode", "geodone"} => \A k \in CacheKeys : served[k] <= 1

\* ------------------------------------------- C27: ties and the load order
\* The two locators applied to one coordinate and to collections in which
\* centroids are shared: LegacyTwin has the centroid and the box of
\* LegacyBoxed, LegacyNoBoxTwin the centroid of LegacyNoBox, WardTwin the
\* centroid of WardNear, each under a key and a short name of its own.
MaxCandidates == 3

LegacyTwin ==
    [LegacyBoxed EXCEPT !.provinceCode = "P3", !.districtShort = <<"t">>]
LegacyNoBoxTwin ==
    [LegacyNoBox EXCEPT !.provinceCode = "P3", !.districtShort = <<"u">>]
WardTwin ==
    [WardNear EXCEPT !.wardCode = "W5", !.wardShort = <<"t">>]

\* the sequences of at most n elements of S without repetition
DistinctSeqs(S, n) ==
    {s \in SeqsUpTo(S, n) : \A a, b \in 1..Len(s) : s[a] = s[b] => a = b}

LocatorDistrictUniverse ==
    {DistrictOf(r) : r \in {LegacyBoxed, LegacyNoBox, LegacyNoName, LegacyTwin,
                             LegacyNoBoxTwin}}
LocatorWardUniverse == {WardOf(r) : r \in {WardFar, WardNear, WardNoName, WardTwin}}

\* the coordinates of the map links
CoordUniverse == {Val(extractCoords(l)) : l \in {u \in MapLinkUniverse : Len(u) = 3}}

\* the collections are loaded, in some file order; a coordinate is given
InitLocate ==
    /\ pc = "locate"
    /\ legacyRows = <<>> /\ convertRows = <<>> /\ newWardRows = <<>>
    /\ i = 1
    /\ districtMap = <<>>
    /\ oldDistricts \in DistinctSeqs(LocatorDistrictUniverse, MaxCandidates)
    /\ districtToNewProvince = EmptyMap /\ aliasData = EmptyMap
    /\ newWards \in DistinctSeqs(LocatorWardUniverse, MaxCandidates)
    /\ newWardsByProvince = EmptyMap /\ oldToNewProvince = EmptyMap
    /\ hospitals = <<>>
    /\ oldMatched = 0 /\ newWardMatched = 0 /\ unmatched = 0
    /\ last = NoLocals /\ todo = {}
    /\ GeoIdle
    /\ str \in CoordUniverse /\ out = <<>>

\* lines 621-642: Step A for the coordinate
LocateOld ==
    /\ pc = "locate" /\ out = <<>>
    /\ out' = <<LocateOldUnit(str)>>
    /\ UNCHANGED <<driverVars, str, geoVars>>

\* lines 674-687: the ward loop over the whole collection
LocateNew ==
    /\ pc = "locate" /\ Len(out) = 1
    /\ out' = Append(out, NearestWard(newWards, str, NoBest).match)
    /\ UNCHANGED <<driverVars, str, geoVars>>

NextLocate ==
    \/ LocateOld
    \/ LocateNew

SpecLocate == InitLocate /\ [][NextLocate]_vars

\* the first of the units s[j], j in cands, among those at the least distance
\* from c; null without candidate
FirstAtMinimum(s, cands, c) ==
    IF cands = {} THEN null
    ELSE LET atMin == {j \in cands : \A k \in cands : Dist(c, s[j]) <= Dist(c, s[k])}
         IN Some(s[CHOOSE j \in atMin : \A k \in atMin : j <= k])

\* the places in oldDistricts of the candidates of Step A: the districts whose
\* box contains c, or without any the districts within the radius
OldCandidates(c) ==
    LET boxed == {j \in 1..Len(oldDistricts) : InBox(c, oldDistricts[j])}
    IN IF boxed # {} THEN boxed
       ELSE {j \in 1..Len(oldDistricts) :
                ~isNaN(Dist(c, oldDistricts[j]))
                /\ Dist(c, oldDistricts[j]) < FallbackRadius}

\* the places in newWards of the wards with a distance to c
WardCandidates(c) == {j \in 1..Len(newWards) : ~isNaN(Dist(c, newWards[j]))}

\* C27: each locator selects, among its candidates at the least distance from
\* the coordinate, the one loaded first; the match is so determined by the
\* coordinate and the order of the reference rows.
C27_FirstLoadedWins ==
    pc = "locate" =>
        /\ Len(out) >= 1 => out[1] = FirstAtMinimum(oldDistricts, OldCandidates(str), str)
        /\ Len(out) = 2 => out[2] = FirstAtMinimum(newWards, WardCandidates(str), str)

\* a valid coordinate outside every box: two districts, and two wards, are at
\* the same least distance, with a farther unit loaded between them
C27_Witness ==
    /\ pc = "locate" /\ Len(out) = 2 /\ ValidPair(str)
    /\ Len(oldDistricts) = 3 /\ Len(newWards) = 3
    /\ \A j \in 1..3 : ~InBox(str, oldDistricts[j])
    /\ Dist(str, oldDistricts[1]) = Dist(str, oldDistricts[3])
    /\ Dist(str, oldDistricts[1]) < Dist(str, oldDistricts[2])
    /\ out[1] = Some(oldDistricts[1])
    /\ Dist(str, newWards[1]) = Dist(str, newWards[3])
    /\ Dist(str, newWards[1]) < Dist(str, newWards[2])
    /\ out[2] = Some(newWards[1])

\* ---------------------------------- C28: deduplication before the filter
\* C28: a key whose first legacy row has a centroid that is no number keeps
\* that row as its entry of districtMap and has no loaded district and no
\* entry in the lookup artifact, whatever rows of the key come later; the
\* artifact has entries, and the locator has matches, for loaded districts
\* only.
C28_FirstRowDecidesKey ==
    /\ pc \in {"conversions", "wards"} =>
          \A j \in 1..Len(legacyRows) :
              (FirstOfKey(j) /\ ~NumericCentroid(DistrictOf(legacyRows[j]))) =>
                  LET key == Key(legacyRows[j])
                  IN /\ \A k \in 1..Len(districtMap) :
                           Key(districtMap[k]) = key =>
                               districtMap[k] = DistrictOf(legacyRows[j])
                     /\ \A d \in Range(oldDistricts) : Key(d) # key
                     /\ key \notin DOMAIN aliasData
    /\ DOMAIN aliasData \subseteq {Key(d) : d \in Range(oldDistricts)}
    /\ ~isNull(last.bestMatch) => Val(last.bestMatch) \in Range(oldDistricts)

\* the key has a second row with a numeric centroid and a box; the district
\* collection and the lookup artifact are built and both are empty
C28_Witness ==
    /\ pc = "wards" /\ Len(legacyRows) = 2
    /\ Key(legacyRows[1]) = Key(legacyRows[2])
    /\ ~NumericCentroid(DistrictOf(legacyRows[1]))
    /\ NumericCentroid(DistrictOf(legacyRows[2]))
    /\ ~isNull(DistrictOf(legacyRows[2]).bounds)
    /\ districtMap = <<DistrictOf(legacyRows[1])>>
    /\ oldDistricts = <<>> /\ DOMAIN aliasData = {}

\* ------------------------------------------------ C29: the unmatched count
\* the map link of facility k gives a coordinate
WithCoordinate(k) == ~isNull(extractCoords(hospitals[k].mapsUrl))

\* facility k got an old district or a new ward
WithAMatch(k) == ResolvedOld(hospitals[k]) \/ ResolvedNew(hospitals[k])

\* the counts after the facilities gone through
UnmatchedBalance ==
    /\ unmatched + Cardinality({k \in Processed : WithAMatch(k)}) = Cardinality(Processed)
    /\ oldMatched <= Cardinality({k \in Processed : WithCoordinate(k)})
    /\ newWardMatched <= Cardinality({k \in Processed : WithCoordinate(k)})

\* an iteration adds one to unmatched when extractCoords gave null or both
\* matches are null, and nothing otherwise
UnmatchedOncePerFacility ==
    (pc = "hospitals" /\ i' = i + 1) =>
        unmatched' = unmatched +
            (IF isNull(last'.coords)
                \/ (isNull(last'.bestMatch) /\ isNull(last'.bestNewWard))
             THEN 1 ELSE 0)

\* C29: each iteration counts its facility in unmatched once when it has no
\* coordinate or neither match, and not otherwise; so unmatched and the number
\* of facilities with a match add up to the number of facilities gone through,
\* and neither matched count exceeds the number of facilities with a
\* coordinate.
C29_UnmatchedAccounting == []UnmatchedBalance /\ [][UnmatchedOncePerFacility]_vars

\* at the report: a facility without coordinate and one with a coordinate and
\* a ward but no district, one unmatched
C29_Witness ==
    /\ pc = "done" /\ Len(hospitals) = 2 /\ unmatched = 1
    /\ \E k \in 1..2 : ~WithCoordinate(k)
    /\ \E k \in 1..2 : WithCoordinate(k) /\ ~ResolvedOld(hospitals[k])
                       /\ ResolvedNew(hospitals[k])
    /\ oldMatched = 0 /\ newWardMatched = 1

\* ------------------------------------------------- C30: the driver run again
\* lines 494-611 a second time: the driver is started on the file it wrote at
\* line 719, with the reference tables it had, which load to the collections
\* they loaded to.  out keeps the records and the counts of the first run.
RunAgain ==
    /\ pc = "done" /\ out = <<>>
    /\ out' = <<[hospitals |-> hospitals, oldMatched |-> oldMatched,
                 newWardMatched |-> newWardMatched, unmatched |-> unmatched]>>
    /\ oldMatched' = 0 /\ newWardMatched' = 0 /\ unmatched' = 0
    /\ todo' = 1..Len(hospitals)
    /\ last' = NoLocals
    /\ pc' = "hospitals" /\ i' = 1
    /\ UNCHANGED <<legacyRows, convertRows, newWardRows, districtMap, oldDistricts,
                   districtToNewProvince, aliasData, newWards, newWardsByProvince,
                   oldToNewProvince, hospitals, str, geoVars>>

NextRerun ==
    \/ Next
    \/ RunAgain

SpecRerun == Init /\ [][NextRerun]_vars

\* C30: throughout the second run every record is as the first run left it,
\* and the second run reports the three counts of the first.
C30_RerunIdempotent ==
    out # <<>> =>
        /\ hospitals = out[1].hospitals
        /\ pc = "done" =>
              /\ oldMatched = out[1].oldMatched
              /\ newWardMatched = out[1].newWardMatched
              /\ unmatched = out[1].unmatched

\* the second run has reported; one record has a district, a ward and
\* aliases, another came with the fields of an earlier run and no coordinate
C30_Witness ==
    /\ pc = "done" /\ out # <<>> /\ Len(hospitals) = 2
    /\ oldMatched = 1 /\ newWardMatched = 1 /\ unmatched = 1
    /\ \E k \in 1..2 :
          /\ ResolvedOld(hospitals[k]) /\ ResolvedNew(hospitals[k])
          /\ Len(Val(hospitals[k].aliases)) >= 2
    /\ \E k \in 1..2 : hospitals[k] = AsciiOf(FacilityEnrichedBefore)

====
